---------------------------- MODULE Spec2Model ----------------------------
(***************************************************************************)
(* Model of the AI-RIS conversational orchestrator                         *)
(* (src/app_orchestrator.py, src/audio_player.py, src/gemini_api.py).      *)
(*                                                                         *)
(* Threads modelled: the main loop (run_main_loop), the TTS worker         *)
(* (_tts_worker, which runs AudioPlayer.play_stream inline), one speech    *)
(* recogniser thread calling _stt_callback, the chat callback and the      *)
(* idle-chatter worker.  Each thread is cut into steps at the points where *)
(* it blocks or where another thread can observe or change shared state.   *)
(***************************************************************************)
EXTENDS Integers, Sequences, FiniteSets, TLC

\* ---------------------------------------------------------------- bounds
MaxSpeech   == 2        \* Spec: speech utterances delivered in one run
MaxChat     == 1        \* Spec: chat lines delivered in one run
MaxIdle     == 1        \* idle triggers in one run
MaxResp     == 3        \* response ids issued in one run
BurstSpeech == 3        \* SpecSpeech: speech utterances delivered in one run
WindowChats == 3        \* SpecChat: chat lines delivered in one run
NumChunks   == 2        \* audio chunks of one synthesized stream
MaxRecentChats == 2     \* configured chat.max_recent_chats (maxlen of the window)
MaxEntries  == 2        \* largest max_entries of a LongTermMemory
MaxCalls    == 6        \* SpecMemory: operations on the long-term memory in one run
FewCalls    == 2        \* SpecStores: operations on the long-term memory in one run
MaxCore     == 1        \* SpecStores: core memories held at one time
ManyCore    == 2        \* SpecPersist, SpecCore: core memories held at one time
MaxFail     == 2        \* SpecPersist: file writes that fail in one run
MaxPolls    == 2        \* SpecCollector: polls of the chat page in one run
PollLimit   == 3        \* lines one poll returns (get_latest_chats(limit=20))
MaxStarts   == 3        \* SpecStart: calls of start() in one run
MaxElapsed  == 3        \* SpecIdle: the longest idle time the clock counts up to
MinIdleS    == 1        \* idle_chatter.min_interval_s, in clock ticks
MaxIdleS    == 2        \* idle_chatter.max_interval_s, in clock ticks
MaxIdlePosts == 2       \* SpecIdle: idle items posted in one run
MaxFaults   == 1        \* SpecFault: utterances whose interruption handling fails
MaxStops    == 3        \* direct calls of AudioPlayer.stop() in one run
MaxTicks    == 2        \* distillation attempts in one run
MaxToolCalls == 2       \* function calls in one reply of the language model

\* ------------------------------------------------------ program constants
MaxHistory     == 20    \* GeminiAPI max_history_length (deque maxlen)
KeepRecent     == 2     \* queued_items[-2:] kept on barge-in

None == 0               \* Python None for ids and records
NoItem == [source |-> "none", id |-> 0, is_interruption |-> FALSE, timestamp |-> 0]
NoTask == [response_id |-> None, text |-> "none"]
NoRecord == [response_id |-> None, by |-> 0]
Absent == "absent"      \* os.path.exists(path) is False
Torn == "torn"          \* a file that open(path, 'w') truncated and whose write broke off

VARIABLES
    running,              \* self.running (threading.Event)
    llm_input_queue,      \* self.llm_input_queue
    tts_queue,            \* self.tts_queue
    recent_chats,         \* self.recent_chats (deque, maxlen)
    seen_chats,           \* self.seen_chats
    interrupted_response, \* self.interrupted_response
    current_response_id,  \* self.current_response_id
    history,              \* gemini_client.history (deque, maxlen)
    is_playing,           \* audio_player.is_playing
    stream_open,          \* audio_player._stream is not None
    nextId,               \* next fresh uuid
    mlPc, mlItem, mlDrained, mlRid, mlPrev, mlRecent,   \* run_main_loop locals
    twPc, twTask, written,                              \* _tts_worker / play_stream locals
    scPc, scText,                                       \* _stt_callback locals
    nSpeech, nChat, nIdle,                              \* events delivered so far
    lim,                                                \* event budget of the run
    delivered,            \* history: speech s -> responses active when s was delivered
    bargeIns,             \* history: utterances whose delivery stopped playing audio
    stopped,              \* history: speech s -> response whose audio s stopped
    issuedFor,            \* history: per response issued, in order: its item and its id
    max_entries,          \* LongTermMemory: maxlen of self.memories
    memories,             \* LongTermMemory.memories (deque)
    ltm_file,             \* content of the file at LongTermMemory.file_path
    ltm_writes,           \* history: times the long-term memory file was written
    ltm_ops,              \* history: operations on the long-term memory, in order
    core_memories,        \* CoreMemoryProcessor.core_memories (list of dicts)
    core_file,            \* content of the file at core_memory_file
    failed_writes,        \* history: the file writes that failed, in order
    api_key,              \* config llm.api_key is set
    threads,              \* the worker threads have been started
    start_log,            \* history: how each call of start() ended
    chat_log,             \* history: per chat line delivered, trial and pipeline state
    faulted,              \* history: utterances whose interruption handling raised
    last_chats,           \* _chat_collector_worker local: the previous poll's result
    emitted,              \* history: the lines the last poll passed to _chat_callback
    nPolls,               \* polls of the chat collector so far
    distill_log,          \* history: per distillation attempt, what was done
    stop_log,             \* history: how each direct call of AudioPlayer.stop() ended
    queuedAt,             \* history: speech s -> responses queued for synthesis when s barged in
    idle_elapsed,         \* time since last_interaction_time was set (0 where time stands still)
    iwPc,                 \* _idle_chatter_worker position: "check" or "post"
    fetch_log,            \* history: did the latest fetch fail, and the latest result read without failure
    exited                \* worker loops that have left their while loop

vars == << running, llm_input_queue, tts_queue, recent_chats, seen_chats,
           interrupted_response, current_response_id, history, is_playing,
           stream_open, nextId, mlPc, mlItem, mlDrained, mlRid, mlPrev,
           mlRecent, twPc, twTask, written, scPc, scText, nSpeech, nChat,
           nIdle, lim, delivered, bargeIns, stopped, issuedFor,
           max_entries, memories, ltm_file, ltm_writes, ltm_ops,
           core_memories, core_file, failed_writes,
           api_key, threads, start_log, chat_log, faulted, last_chats,
           emitted, nPolls, distill_log, stop_log, queuedAt, idle_elapsed,
           iwPc, fetch_log, exited >>

\* configuration, thread start-up and the histories of the workers
auxVars == << api_key, threads, start_log, chat_log, faulted, last_chats,
              emitted, nPolls, distill_log, stop_log, queuedAt, idle_elapsed,
           iwPc, fetch_log, exited >>

\* the state of the orchestrator and of its threads
orchVars == << running, llm_input_queue, tts_queue, recent_chats, seen_chats,
               interrupted_response, current_response_id, history, is_playing,
               stream_open, nextId, mlPc, mlItem, mlDrained, mlRid, mlPrev,
               mlRecent, twPc, twTask, written, scPc, scText, nSpeech, nChat,
               nIdle, lim, delivered, bargeIns, stopped, issuedFor, auxVars >>

\* the state of the two memory stores
storeVars == << max_entries, memories, ltm_file, ltm_writes, ltm_ops,
                core_memories, core_file, failed_writes >>

\* ------------------------------------------------------------- helpers

\* variant of DequeAppend: a deque without maxlen
DequeAppendUnbounded(d, x, n) == Append(d, x)

\* deque(maxlen=n).append(x): append and evict the oldest on overflow
DequeAppend(d, x, n) ==
    LET a == Append(d, x)
    IN  IF Len(a) > n THEN SubSeq(a, Len(a) - n + 1, Len(a)) ELSE a

\* seq[-k:] if len(seq) > k else seq
LastK(s, k) == IF Len(s) > k THEN SubSeq(s, Len(s) - k + 1, Len(s)) ELSE s

\* seq[k:]
DropK(s, k) == IF k >= Len(s) THEN << >> ELSE SubSeq(s, k + 1, Len(s))

RECURSIVE FilterInterruptions(_)
FilterInterruptions(s) ==
    IF s = << >> THEN << >>
    ELSE IF Head(s).is_interruption
         THEN << Head(s) >> \o FilterInterruptions(Tail(s))
         ELSE FilterInterruptions(Tail(s))

\* insert x into a sequence sorted by timestamp descending, after every
\* element whose timestamp is >= x's (keeps equal keys in arrival order)
RECURSIVE InsertDesc(_, _)
InsertDesc(sorted, x) ==
    IF sorted = << >> THEN << x >>
    ELSE IF Head(sorted).timestamp >= x.timestamp
         THEN << Head(sorted) >> \o InsertDesc(Tail(sorted), x)
         ELSE << x >> \o sorted

\* list.sort(key=timestamp, reverse=True): stable, descending
RECURSIVE SortByTimestampDesc(_)
SortByTimestampDesc(s) ==
    IF s = << >> THEN << >>
    ELSE InsertDesc(SortByTimestampDesc(SubSeq(s, 1, Len(s) - 1)), s[Len(s)])

\* the choice of item_to_process among the drained items
SelectItem(pending) ==
    LET sorted == SortByTimestampDesc(pending)
        ints   == FilterInterruptions(sorted)
    IN  IF ints # << >> THEN ints[1] ELSE sorted[1]

SttItem(s, flag) ==
    [source |-> "stt", id |-> s, is_interruption |-> flag, timestamp |-> s]
ChatItem(c) ==
    [source |-> "chat", id |-> c, is_interruption |-> FALSE, timestamp |-> 0]
IdleItem(i) ==
    [source |-> "idle", id |-> i, is_interruption |-> FALSE, timestamp |-> 0]

SystemMessage(tag, s) == [role |-> "system", tag |-> tag, ref |-> s]
HistoryEntry(role, r) == [role |-> role, tag |-> "turn", ref |-> r]


\* ---------------------------------------------------------------- phases

\* the response the main loop is generating (id bound, result not yet handed on)
Generating(r) == mlPc \in {"prep", "gen"} /\ mlRid = r
\* the response whose synthesis request the TTS worker has in flight
Synthesizing(r) == twPc = "synth" /\ twTask.response_id = r
\* the response inside AudioPlayer.play_stream
Playing(r) == twPc \in {"play_open", "play_loop"} /\ twTask.response_id = r

Active(r) == Generating(r) \/ Synthesizing(r) \/ Playing(r)
ActiveIds == {r \in 1..MaxResp : Active(r)}

\* ------------------------------------------------------------------ Init

\* the events one run delivers: every source (Spec), speech bursts after one
\* idle trigger (SpecSpeech), chat traffic with idle triggers (SpecChat)
\* no operations on the memory stores; the store has the largest capacity
\* nothing fails, the configuration is complete, and the chat collector,
\* the distiller and the player test are not run
NoFaults     == [fails |-> 0, keys |-> {TRUE}, starts |-> 1, faults |-> 0,
                 polls |-> 0, ticks |-> 0, stops |-> 0, clock |-> 0,
                 fetchfails |-> FALSE, chance |-> "any", devfail |-> FALSE,
                 halts |-> FALSE]

NoStoreOps   == [calls |-> 0, core |-> 0, caps |-> {MaxEntries}] @@ NoFaults

Budget       == [speech |-> MaxSpeech, chat |-> MaxChat, idle |-> MaxIdle,
                 uuids |-> "distinct"] @@ NoStoreOps
SpeechBudget == [speech |-> BurstSpeech, chat |-> 0, idle |-> MaxIdle,
                 uuids |-> "distinct"] @@ NoStoreOps
ChatBudget   == [speech |-> 0, chat |-> WindowChats, idle |-> MaxIdle,
                 uuids |-> "distinct"] @@ NoStoreOps
\* runs in which uuid4 may return any value, repeated or out of order
TokenBudget  == [speech |-> 1, chat |-> MaxChat, idle |-> MaxIdle,
                 uuids |-> "any"] @@ NoStoreOps
\* the memory stores alone: the orchestrator is not started
NoEvents     == [speech |-> 0, chat |-> 0, idle |-> 0, uuids |-> "distinct"]
                   @@ NoFaults
MemoryBudget == NoEvents @@ [calls |-> MaxCalls, core |-> 0,
                             caps |-> 1..MaxEntries]
StoresBudget == NoEvents @@ [calls |-> FewCalls, core |-> MaxCore,
                             caps |-> 1..MaxEntries]

InitWith(budget) ==
    /\ running = FALSE
    /\ llm_input_queue = << >>
    /\ tts_queue = << >>
    /\ recent_chats = << >>
    /\ seen_chats = << >>
    /\ interrupted_response = NoRecord
    /\ current_response_id = None
    /\ history = << >>
    /\ is_playing = FALSE
    /\ stream_open = FALSE
    /\ nextId = 1
    /\ mlPc = "wait" /\ mlItem = NoItem /\ mlDrained = << >> /\ mlRid = None
    /\ mlPrev = << >> /\ mlRecent = << >>
    /\ twPc = "get" /\ twTask = NoTask /\ written = 0
    /\ scPc = "idle" /\ scText = 0
    /\ nSpeech = 0 /\ nChat = 0 /\ nIdle = 0
    /\ lim = budget
    /\ delivered = [s \in 1..BurstSpeech |-> {}]
    /\ bargeIns = {}
    /\ stopped = [s \in 1..BurstSpeech |-> None]
    /\ issuedFor = << >>
    /\ max_entries \in budget.caps
    /\ memories = << >>
    /\ ltm_file = Absent
    /\ ltm_writes = 0
    /\ ltm_ops = << >>
    /\ core_memories = << >>
    /\ core_file = Absent
    /\ failed_writes = << >>
    /\ api_key \in budget.keys
    /\ threads = FALSE
    /\ start_log = << >>
    /\ chat_log = << >>
    /\ faulted = {}
    /\ last_chats = << >>
    /\ emitted = << >>
    /\ nPolls = 0
    /\ distill_log = << >>
    /\ stop_log = << >>
    /\ queuedAt = [s \in 1..BurstSpeech |-> {}]
    /\ idle_elapsed = 0
    /\ iwPc = "check"
    /\ fetch_log = [failed |-> FALSE, good |-> << >>]
    /\ exited = {}

Init == InitWith(Budget)

\* ----------------------------------------------------------------- start

\* _initialize_components line 221 with GeminiAPI.__init__ lines 12-13:
\* without an API key the constructor raises ValueError, which neither
\* _initialize_components nor start catches
InitializeRaises == ~api_key

\* AppOrchestrator.start: returns at once when running is set; otherwise
\* sets running, initializes the components and starts the worker threads
Start ==
    /\ Len(start_log) < lim.starts
    /\ IF running
       THEN /\ start_log' = Append(start_log, "already_running")
            /\ UNCHANGED << running, threads >>
       ELSE /\ running' = TRUE
            /\ threads' = ~InitializeRaises
            /\ start_log' = Append(start_log, IF InitializeRaises
                                              THEN "raised" ELSE "started")
    /\ UNCHANGED << llm_input_queue, tts_queue, recent_chats, seen_chats,
                    interrupted_response, current_response_id, history,
                    is_playing, stream_open, nextId, mlPc, mlItem, mlDrained,
                    mlRid, mlPrev, mlRecent, twPc, twTask, written, scPc,
                    scText, nSpeech, nChat, nIdle, lim, delivered, bargeIns,
                    stopped, issuedFor >>
    /\ UNCHANGED << api_key, chat_log, faulted, last_chats, emitted, nPolls,
                    distill_log, stop_log,
                    queuedAt, idle_elapsed, iwPc, fetch_log, exited >>
    /\ UNCHANGED storeVars

\* the operator puts the API key into the configuration
SetApiKey ==
    /\ ~api_key
    /\ api_key' = TRUE
    /\ UNCHANGED << running, llm_input_queue, tts_queue, recent_chats,
                    seen_chats, interrupted_response, current_response_id,
                    history, is_playing, stream_open, nextId, mlPc, mlItem,
                    mlDrained, mlRid, mlPrev, mlRecent, twPc, twTask, written,
                    scPc, scText, nSpeech, nChat, nIdle, lim, delivered,
                    bargeIns, stopped, issuedFor >>
    /\ UNCHANGED << threads, start_log, chat_log, faulted, last_chats, emitted,
                    nPolls, distill_log, stop_log,
                    queuedAt, idle_elapsed, iwPc, fetch_log, exited >>
    /\ UNCHANGED storeVars

\* --------------------------------------------------------- _stt_callback

\* _update_interaction_time, lines 72-73
UpdateInteractionTime == idle_elapsed' = 0

\* AudioPlayer.stop(): clears the flag, closes and drops the stream
PlayerStop ==
    /\ is_playing' = FALSE
    /\ stream_open' = FALSE

\* what the player holds when stop() is called
PlayerState ==
    IF stream_open THEN "playing" ELSE IF is_playing THEN "flag" ELSE "idle"

\* stop_stream() and close() of a held stream return or raise
StreamCloseOutcomes == IF stream_open THEN {"closed", "raised"} ELSE {"none"}

\* the device calls of the stop() made by a barge-in: they raise only in
\* the runs with faults
BargeInStopOutcomes ==
    IF Cardinality(faulted) < lim.faults THEN StreamCloseOutcomes ELSE {"closed"}

\* lines 75-91: an utterance is delivered; if audio is playing it is stopped
SttArrive ==
    /\ running
    /\ threads
    /\ scPc = "idle"
    /\ nSpeech < lim.speech
    /\ nSpeech' = nSpeech + 1
    /\ scText' = nSpeech + 1
    /\ delivered' = [delivered EXCEPT ![nSpeech + 1] = ActiveIds]
    /\ IF is_playing
       THEN /\ PlayerStop
            /\ \E out \in BargeInStopOutcomes :
                  faulted' = IF out = "raised"
                             THEN faulted \cup {nSpeech + 1} ELSE faulted
            /\ scPc' = "rec"
            /\ bargeIns' = bargeIns \cup {nSpeech + 1}
            /\ stopped' = [stopped EXCEPT ![nSpeech + 1] = twTask.response_id]
            /\ queuedAt' = [queuedAt EXCEPT ![nSpeech + 1] =
                   {tts_queue[i].response_id : i \in 1..Len(tts_queue)}]
       ELSE /\ UNCHANGED << is_playing, stream_open, bargeIns, stopped,
                            faulted, queuedAt,
                    idle_elapsed, iwPc, fetch_log, exited >>
            /\ scPc' = "put"
    /\ UNCHANGED << running, llm_input_queue, tts_queue, recent_chats,
                    seen_chats, interrupted_response, current_response_id,
                    history, nextId, mlPc, mlItem, mlDrained, mlRid, mlPrev,
                    mlRecent, twPc, twTask, written, nChat, nIdle, lim,
                    issuedFor >>
    /\ UNCHANGED storeVars
    /\ UNCHANGED << api_key, threads, start_log, chat_log, last_chats, emitted,
                    nPolls, distill_log, stop_log,
                    idle_elapsed, iwPc, fetch_log, exited >>

\* lines 93-100: store the interrupted response if an id is current
StoreRecord ==
    /\ interrupted_response' =
          IF current_response_id # None
          THEN [response_id |-> current_response_id, by |-> scText]
          ELSE interrupted_response
    /\ UNCHANGED current_response_id

SttStoreRecord ==
    /\ scPc = "rec"
    /\ StoreRecord
    /\ scPc' = "purge"
    /\ UNCHANGED << running, llm_input_queue, tts_queue, recent_chats,
                    seen_chats, history, is_playing, stream_open, nextId,
                    mlPc, mlItem, mlDrained, mlRid, mlPrev, mlRecent, twPc,
                    twTask, written, scText, nSpeech, nChat, nIdle, lim,
                    delivered, bargeIns,
                    stopped, issuedFor >>
    /\ UNCHANGED storeVars
    /\ UNCHANGED auxVars

\* lines 139-145: the callback's own system message about the interruption
SttSystemMessage == DequeAppend(history, SystemMessage("callback", scText), MaxHistory)

\* lines 102-145: purge the TTS queue, trim the LLM queue to its last items,
\* add the interruption system message
SttPurge ==
    /\ scPc = "purge"
    /\ tts_queue' = << >>
    /\ llm_input_queue' = LastK(llm_input_queue, KeepRecent)
    /\ history' = SttSystemMessage
    /\ scPc' = "put"
    /\ UNCHANGED << running, recent_chats, seen_chats, interrupted_response,
                    current_response_id, is_playing, stream_open, nextId,
                    mlPc, mlItem, mlDrained, mlRid, mlPrev, mlRecent, twPc,
                    twTask, written, scText, nSpeech, nChat, nIdle, lim,
                    delivered, bargeIns,
                    stopped, issuedFor >>
    /\ UNCHANGED storeVars
    /\ UNCHANGED auxVars

\* lines 147-149: an exception in the interruption block is caught there and
\* the callback goes on to enqueue the utterance
AfterInterruptError(pc) == "put"

\* lines 87-149: a step of the interruption handling raises; the steps
\* after it are skipped
SttInterruptError ==
    /\ Cardinality(faulted \ {scText}) < lim.faults
    /\ scPc \in {"rec", "purge"}
    /\ scPc' = AfterInterruptError(scPc)
    /\ faulted' = faulted \cup {scText}
    /\ UNCHANGED << running, llm_input_queue, tts_queue, recent_chats,
                    seen_chats, interrupted_response, current_response_id,
                    history, is_playing, stream_open, nextId, mlPc, mlItem,
                    mlDrained, mlRid, mlPrev, mlRecent, twPc, twTask, written,
                    scText, nSpeech, nChat, nIdle, lim, delivered, bargeIns,
                    stopped, issuedFor >>
    /\ UNCHANGED storeVars
    /\ UNCHANGED << api_key, threads, start_log, chat_log, last_chats, emitted,
                    nPolls, distill_log, stop_log,
                    queuedAt, idle_elapsed, iwPc, fetch_log, exited >>

\* lines 151-178: enqueue the utterance; is_interruption is read off the
\* stored record
SttEnqueue ==
    /\ scPc = "put"
    /\ llm_input_queue' =
          Append(llm_input_queue, SttItem(scText, interrupted_response # NoRecord))
    /\ scPc' = "idle"
    /\ scText' = 0
    /\ UNCHANGED << running, tts_queue, recent_chats, seen_chats,
                    interrupted_response, current_response_id, history,
                    is_playing, stream_open, nextId, mlPc, mlItem, mlDrained,
                    mlRid, mlPrev, mlRecent, twPc, twTask, written, nSpeech,
                    nChat, nIdle, lim, delivered, bargeIns,
                    stopped, issuedFor >>
    /\ UNCHANGED storeVars
    /\ UpdateInteractionTime
    /\ UNCHANGED << api_key, threads, start_log, chat_log, faulted, last_chats,
                    emitted, nPolls, distill_log, stop_log, queuedAt, iwPc, fetch_log, exited >>

\* -------------------------------------------------------- _chat_callback

\* lines 190-200: every line enters the window; a line that passes the
\* response trial is enqueued unless audio is playing
\* variant of ChatWindowAfter: only a line that becomes a trigger enters
\* the window
ChatWindowAfterTrial(c, pass) ==
    IF pass /\ ~is_playing
    THEN DequeAppend(recent_chats, c, MaxRecentChats)
    ELSE recent_chats

\* line 192: the window after the line was appended
ChatWindowAfter(c, pass) == DequeAppend(recent_chats, c, MaxRecentChats)

\* lines 193-198: the queue after the trial
ChatQueueAfter(c, pass) ==
    IF pass /\ ~is_playing
    THEN Append(llm_input_queue, ChatItem(c))
    ELSE llm_input_queue

ChatCallback ==
    /\ running
    /\ threads
    /\ nChat < lim.chat
    /\ nChat' = nChat + 1
    /\ \E pass \in BOOLEAN :
          /\ recent_chats' = ChatWindowAfter(nChat + 1, pass)
          /\ llm_input_queue' = ChatQueueAfter(nChat + 1, pass)
          /\ IF pass /\ ~is_playing
             THEN UpdateInteractionTime
             ELSE UNCHANGED idle_elapsed
          /\ chat_log' = Append(chat_log, [pass |-> pass, playing |-> is_playing,
                                           active |-> ActiveIds])
    /\ UNCHANGED << running, tts_queue, seen_chats, interrupted_response,
                    current_response_id, history, is_playing, stream_open,
                    nextId, mlPc, mlItem, mlDrained, mlRid, mlPrev, mlRecent,
                    twPc, twTask, written, scPc, scText, nSpeech, nIdle, lim,
                    delivered, bargeIns,
                    stopped, issuedFor >>
    /\ UNCHANGED storeVars
    /\ UNCHANGED << api_key, threads, start_log, faulted, last_chats,
                    emitted, nPolls, distill_log, stop_log,
                    queuedAt, iwPc, fetch_log, exited >>

\* ------------------------------------------------ _chat_collector_worker

\* the {user, message} dicts the chat page can show
ChatLines == { [user |-> "A", message |-> "x"],
               [user |-> "A", message |-> "y"],
               [user |-> "B", message |-> "z"] }

\* get_latest_chats(limit): up to `limit` lines, the newest first; the empty
\* list when the page shows nothing or reading it fails
PollResults == UNION { [1..n -> ChatLines] : n \in 0..PollLimit }

\* variant of IsNewChat: every line of the current result is taken as new
IsNewChatAlways(chat, last) == TRUE

\* line 362: chat not in last_chats
IsNewChat(chat, last) == \A i \in 1..Len(last) : last[i] # chat

\* line 362: [chat for chat in current_chats if chat not in last_chats]
RECURSIVE NewChats(_, _)
NewChats(current, last) ==
    IF current = << >> THEN << >>
    ELSE (IF IsNewChat(Head(current), last) THEN << Head(current) >> ELSE << >>)
         \o NewChats(Tail(current), last)

\* line 365: reversed(new_chats)
Reversed(s) == [i \in 1..Len(s) |-> s[Len(s) + 1 - i]]

\* line 192: f"[{chat['user']}] {chat['message']}"
FormatChat(chat) == << "[", chat.user, "]", "sp", chat.message >>

\* lines 365-366 with _chat_callback line 192: the window after the lines
\* were delivered one after the other
RECURSIVE WindowAfterAll(_, _)
WindowAfterAll(window, lines) ==
    IF lines = << >> THEN window
    ELSE WindowAfterAll(DequeAppend(window, FormatChat(Head(lines)),
                                    MaxRecentChats),
                        Tail(lines))

\* lines 365-366 with _chat_callback lines 193-198: the queue after the
\* lines were delivered; passes[i] is the trial of the i-th line
RECURSIVE QueueAfterAll(_, _, _, _)
QueueAfterAll(q, lines, passes, i) ==
    IF i > Len(lines) THEN q
    ELSE QueueAfterAll(IF passes[i] /\ ~is_playing
                       THEN Append(q, ChatItem(lines[i]))
                       ELSE q,
                       lines, passes, i + 1)

\* lines 359-368: one poll: the lines of the current result that are not in
\* the previous one are passed to _chat_callback, the oldest first
\* get_latest_chats lines 95-97: reading the page raises and the empty list
\* is returned (only in the runs with failing fetches)
FetchOutcomes == IF lim.fetchfails THEN {"read", "failed"} ELSE {"read"}

\* what get_latest_chats returns to the worker
FetchResult(outcome, page) == IF outcome = "failed" THEN << >> ELSE page

\* line 191, random.random() < response_chance: the trial of each line
\* (never passed when the configured chance is 0)
TrialResults(n) ==
    IF lim.chance = "never" THEN {[i \in 1..n |-> FALSE]} ELSE [1..n -> BOOLEAN]

CollectorPoll ==
    /\ running
    /\ threads
    /\ nPolls < lim.polls
    /\ nPolls' = nPolls + 1
    /\ \E page \in PollResults, outcome \in FetchOutcomes :
          LET current_chats == FetchResult(outcome, page)
              new_chats == NewChats(current_chats, last_chats)
              lines     == Reversed(new_chats)
          IN  /\ outcome = "failed" => page = << >>
              /\ fetch_log' = [failed |-> outcome = "failed",
                               good   |-> IF outcome = "failed"
                                          THEN fetch_log.good ELSE page]
              /\ last_chats' = current_chats
              /\ emitted' = lines
              /\ recent_chats' = WindowAfterAll(recent_chats, lines)
              /\ \E passes \in TrialResults(Len(lines)) :
                    /\ llm_input_queue' =
                          QueueAfterAll(llm_input_queue, lines, passes, 1)
                    /\ IF \E k \in 1..Len(lines) : passes[k] /\ ~is_playing
                       THEN UpdateInteractionTime
                       ELSE UNCHANGED idle_elapsed
                    /\ chat_log' = chat_log \o
                          [i \in 1..Len(lines) |->
                              [pass |-> passes[i], playing |-> is_playing,
                               active |-> ActiveIds]]
    /\ UNCHANGED << running, tts_queue, seen_chats, interrupted_response,
                    current_response_id, history, is_playing, stream_open,
                    nextId, mlPc, mlItem, mlDrained, mlRid, mlPrev, mlRecent,
                    twPc, twTask, written, scPc, scText, nSpeech, nChat,
                    nIdle, lim, delivered, bargeIns, stopped, issuedFor >>
    /\ UNCHANGED << api_key, threads, start_log, faulted, distill_log, stop_log,
                    queuedAt, iwPc,
                    exited >>
    /\ UNCHANGED storeVars

\* -------------------------------------------------- _idle_chatter_worker

\* lines 334-350: the idle time has passed the threshold, audio is not
\* playing and the queue is empty
IdleFire ==
    /\ running
    /\ threads
    /\ nIdle < lim.idle
    /\ ~is_playing
    /\ llm_input_queue = << >>
    /\ nIdle' = nIdle + 1
    /\ llm_input_queue' = << IdleItem(nIdle + 1) >>
    /\ UNCHANGED << running, tts_queue, recent_chats, seen_chats,
                    interrupted_response, current_response_id, history,
                    is_playing, stream_open, nextId, mlPc, mlItem, mlDrained,
                    mlRid, mlPrev, mlRecent, twPc, twTask, written, scPc,
                    scText, nSpeech, nChat, lim, delivered, bargeIns,
                    stopped, issuedFor >>
    /\ UNCHANGED storeVars
    /\ UpdateInteractionTime
    /\ UNCHANGED << api_key, threads, start_log, chat_log, faulted, last_chats,
                    emitted, nPolls, distill_log, stop_log, queuedAt, iwPc, fetch_log, exited >>

\* time passes (only in the runs that keep a clock)
Tick ==
    /\ idle_elapsed < lim.clock
    /\ idle_elapsed' = idle_elapsed + 1
    /\ UNCHANGED << running, llm_input_queue, tts_queue, recent_chats,
                    seen_chats, interrupted_response, current_response_id,
                    history, is_playing, stream_open, nextId, mlPc, mlItem,
                    mlDrained, mlRid, mlPrev, mlRecent, twPc, twTask, written,
                    scPc, scText, nSpeech, nChat, nIdle, lim, delivered,
                    bargeIns, stopped, issuedFor >>
    /\ UNCHANGED storeVars
    /\ UNCHANGED << api_key, threads, start_log, chat_log, faulted, last_chats,
                    emitted, nPolls, distill_log, stop_log, queuedAt, iwPc, fetch_log, exited >>

\* line 342, random.uniform(min_idle, max_idle): the threshold of one cycle
IdleThresholds == MinIdleS..MaxIdleS

\* lines 334-342, one cycle of the worker step by step: while audio plays
\* the interaction time is reset; otherwise the idle time is compared with
\* this cycle's threshold
IdleCheck ==
    /\ running
    /\ threads
    /\ iwPc = "check"
    /\ nIdle < lim.idle
    /\ IF is_playing
       THEN UpdateInteractionTime /\ UNCHANGED iwPc
       ELSE /\ \E th \in IdleThresholds :
                  iwPc' = IF idle_elapsed > th THEN "post" ELSE "check"
            /\ UNCHANGED idle_elapsed
    /\ UNCHANGED << running, llm_input_queue, tts_queue, recent_chats,
                    seen_chats, interrupted_response, current_response_id,
                    history, is_playing, stream_open, nextId, mlPc, mlItem,
                    mlDrained, mlRid, mlPrev, mlRecent, twPc, twTask, written,
                    scPc, scText, nSpeech, nChat, nIdle, lim, delivered,
                    bargeIns, stopped, issuedFor >>
    /\ UNCHANGED storeVars
    /\ UNCHANGED << api_key, threads, start_log, chat_log, faulted, last_chats,
                    emitted, nPolls, distill_log, stop_log, queuedAt, fetch_log, exited >>

\* lines 344-348: the threshold was exceeded; post an idle item if the queue
\* is empty
IdlePost ==
    /\ iwPc = "post"
    /\ iwPc' = "check"
    /\ IF llm_input_queue = << >>
       THEN /\ nIdle' = nIdle + 1
            /\ llm_input_queue' = << IdleItem(nIdle + 1) >>
            /\ UpdateInteractionTime
       ELSE UNCHANGED << nIdle, llm_input_queue, idle_elapsed, fetch_log, exited >>
    /\ UNCHANGED << running, tts_queue, recent_chats, seen_chats,
                    interrupted_response, current_response_id, history,
                    is_playing, stream_open, nextId, mlPc, mlItem, mlDrained,
                    mlRid, mlPrev, mlRecent, twPc, twTask, written, scPc,
                    scText, nSpeech, nChat, lim, delivered, bargeIns,
                    stopped, issuedFor >>
    /\ UNCHANGED storeVars
    /\ UNCHANGED << api_key, threads, start_log, chat_log, faulted, last_chats,
                    emitted, nPolls, distill_log, stop_log, queuedAt, fetch_log, exited >>


\* --------------------------------------------------------- run_main_loop

\* lines 445-489: audio is not playing; drain the queue and choose an item
MainDrain ==
    /\ running
    /\ threads
    /\ mlPc = "wait"
    /\ ~is_playing
    /\ llm_input_queue # << >>
    /\ mlDrained' = llm_input_queue
    /\ mlItem' = SelectItem(llm_input_queue)
    /\ llm_input_queue' = << >>
    /\ mlPc' = "issue"
    /\ UNCHANGED << running, tts_queue, recent_chats, seen_chats,
                    interrupted_response, current_response_id, history,
                    is_playing, stream_open, nextId, mlRid, mlPrev, mlRecent,
                    twPc, twTask, written, scPc, scText, nSpeech, nChat,
                    nIdle, lim, delivered, bargeIns,
                    stopped, issuedFor >>
    /\ UNCHANGED storeVars
    /\ UNCHANGED auxVars

\* line 495, str(uuid.uuid4())[:8]: the first eight hex digits of a random
\* uuid, here a value of 1..MaxResp.  In the runs with pairwise distinct
\* values the n-th value drawn is named n; otherwise any value may come.
Uuid4Prefix == IF lim.uuids = "any" THEN 1..MaxResp ELSE {nextId}

\* lines 491-496: a new response id becomes the current one
MainIssue ==
    /\ mlPc = "issue"
    /\ nextId <= MaxResp
    /\ \E u \in Uuid4Prefix :
          /\ mlRid' = u
          /\ current_response_id' = u
          /\ issuedFor' = Append(issuedFor, [source |-> mlItem.source,
                                             id |-> mlItem.id,
                                             response_id |-> u])
    /\ nextId' = nextId + 1
    /\ mlDrained' = << >>
    /\ mlPc' = "prep"
    /\ UNCHANGED << running, llm_input_queue, tts_queue, recent_chats,
                    seen_chats, interrupted_response, history, is_playing,
                    stream_open, mlItem, mlPrev, mlRecent, twPc, twTask,
                    written, scPc, scText, nSpeech, nChat, nIdle, lim,
                    delivered, bargeIns,
                    stopped >>
    /\ UNCHANGED storeVars
    /\ UNCHANGED auxVars

\* lines 498-510: an interruption item consumes the stored record and adds
\* the main loop's system message
ConsumesRecord == mlItem.is_interruption /\ interrupted_response # NoRecord

MainSystemMessage ==
    DequeAppend(history, SystemMessage("main", interrupted_response.by), MaxHistory)

\* lines 523-532: the split of the chat window
PreviousChats == seen_chats
RecentChats ==
    IF Len(recent_chats) > Len(seen_chats)
    THEN DropK(recent_chats, Len(seen_chats))
    ELSE << >>

\* lines 498-545: interruption context, chat split, watermark, prompt
MainPrep ==
    /\ mlPc = "prep"
    /\ IF ConsumesRecord
       THEN /\ interrupted_response' = NoRecord
            /\ history' = MainSystemMessage
       ELSE UNCHANGED << interrupted_response, history >>
    /\ mlPrev' = PreviousChats
    /\ mlRecent' = RecentChats
    /\ seen_chats' = recent_chats
    /\ mlPc' = "gen"
    /\ UNCHANGED << running, llm_input_queue, tts_queue, recent_chats,
                    current_response_id, is_playing, stream_open, nextId,
                    mlItem, mlDrained, mlRid, twPc, twTask, written, scPc,
                    scText, nSpeech, nChat, nIdle, lim, delivered, bargeIns,
                    stopped, issuedFor >>
    /\ UNCHANGED storeVars
    /\ UNCHANGED auxVars

\* variant of HistoryAfterGenerate: the model turn is appended before the
\* user turn
HistoryAfterGenerateSwapped(ok) ==
    IF ok
    THEN DequeAppend(DequeAppend(history, HistoryEntry("model", mlRid), MaxHistory),
                     HistoryEntry("user", mlRid), MaxHistory)
    ELSE history

\* GeminiAPI.generate_response: on success the user and model turns are
\* appended and the text returned; on failure the apology is returned
HistoryAfterGenerate(ok) ==
    IF ok
    THEN DequeAppend(DequeAppend(history, HistoryEntry("user", mlRid), MaxHistory),
                     HistoryEntry("model", mlRid), MaxHistory)
    ELSE history

\* variant of ResponseText: a failed call hands on no apology
ResponseTextNoApology(ok) == "response"

ResponseText(ok) == IF ok THEN "response" ELSE "apology"

\* line 558: the result is handed to the TTS queue only under the id that
\* is still current
StillCurrent == running /\ current_response_id = mlRid

\* lines 546-574: the language model returns; queue the text or drop it
MainGenerate ==
    /\ mlPc = "gen"
    /\ \E ok \in BOOLEAN :
          /\ history' = HistoryAfterGenerate(ok)
          /\ IF StillCurrent
             THEN /\ tts_queue' = Append(tts_queue,
                                    [response_id |-> mlRid, text |-> ResponseText(ok)])
                  /\ UNCHANGED current_response_id
             ELSE /\ current_response_id' = None
                  /\ UNCHANGED tts_queue
    /\ mlPc' = "wait"
    /\ mlItem' = NoItem
    /\ mlRid' = None
    /\ mlPrev' = << >>
    /\ mlRecent' = << >>
    /\ UNCHANGED << running, llm_input_queue, recent_chats, seen_chats,
                    interrupted_response, is_playing, stream_open, nextId,
                    mlDrained, twPc, twTask, written, scPc, scText, nSpeech,
                    nChat, nIdle, lim, delivered, bargeIns,
                    stopped, issuedFor >>
    /\ UNCHANGED storeVars
    /\ UNCHANGED auxVars

\* ----------------------------------------------------------- _tts_worker

\* lines 257-287: take a task; skip it when its id is not the current one
TtsGet ==
    /\ running
    /\ threads
    /\ twPc = "get"
    /\ tts_queue # << >>
    /\ tts_queue' = Tail(tts_queue)
    /\ IF Head(tts_queue).response_id # current_response_id
       THEN UNCHANGED << twPc, twTask >>
       ELSE twPc' = "synth" /\ twTask' = Head(tts_queue)
    /\ written' = 0
    /\ UNCHANGED << running, llm_input_queue, recent_chats, seen_chats,
                    interrupted_response, current_response_id, history,
                    is_playing, stream_open, nextId, mlPc, mlItem, mlDrained,
                    mlRid, mlPrev, mlRecent, scPc, scText, nSpeech, nChat,
                    nIdle, lim, delivered, bargeIns,
                    stopped, issuedFor >>
    /\ UNCHANGED storeVars
    /\ IF Head(tts_queue).response_id # current_response_id
       THEN UNCHANGED idle_elapsed
       ELSE UpdateInteractionTime
    /\ UNCHANGED << api_key, threads, start_log, chat_log, faulted, last_chats,
                    emitted, nPolls, distill_log, stop_log, queuedAt, iwPc, fetch_log, exited >>

\* variant of StartsPlayback: play_stream does not look at the flag
StartsPlaybackAnyway(gotStream) ==
    gotStream /\ current_response_id = twTask.response_id

\* line 290 and play_stream lines 69-70: the stream is played only if the
\* synthesizer returned one, the id is still current and nothing is playing
StartsPlayback(gotStream) ==
    gotStream /\ current_response_id = twTask.response_id /\ ~is_playing

\* lines 289-304: the synthesis request returns
TtsSynth ==
    /\ twPc = "synth"
    /\ \E gotStream \in BOOLEAN :
          IF StartsPlayback(gotStream)
          THEN is_playing' = TRUE /\ twPc' = "play_open"
          ELSE UNCHANGED is_playing /\ twPc' = "finish"
    /\ UNCHANGED << running, llm_input_queue, tts_queue, recent_chats,
                    seen_chats, interrupted_response, current_response_id,
                    history, stream_open, nextId, mlPc, mlItem, mlDrained,
                    mlRid, mlPrev, mlRecent, twTask, written, scPc, scText,
                    nSpeech, nChat, nIdle, lim, delivered, bargeIns,
                    stopped, issuedFor >>
    /\ UNCHANGED storeVars
    /\ UNCHANGED auxVars

\* play_stream lines 72-90: open the device stream and write the first chunk
TtsPlayOpen ==
    /\ twPc = "play_open"
    /\ stream_open' = TRUE
    /\ written' = 1
    /\ twPc' = "play_loop"
    /\ UNCHANGED << running, llm_input_queue, tts_queue, recent_chats,
                    seen_chats, interrupted_response, current_response_id,
                    history, is_playing, nextId, mlPc, mlItem, mlDrained,
                    mlRid, mlPrev, mlRecent, twTask, scPc, scText, nSpeech,
                    nChat, nIdle, lim, delivered, bargeIns,
                    stopped, issuedFor >>
    /\ UNCHANGED storeVars
    /\ UNCHANGED auxVars

\* variant of KeepsPlaying: the loop does not look at the flag or the stream
KeepsPlayingDeaf == TRUE

\* play_stream line 94: the loop goes on while the flag is set and the
\* stream is held
KeepsPlaying == is_playing /\ stream_open

\* play_stream lines 93-98: write the next chunk
TtsPlayChunk ==
    /\ twPc = "play_loop"
    /\ written < NumChunks
    /\ KeepsPlaying
    /\ written' = written + 1
    /\ UNCHANGED << running, llm_input_queue, tts_queue, recent_chats,
                    seen_chats, interrupted_response, current_response_id,
                    history, is_playing, stream_open, nextId, mlPc, mlItem,
                    mlDrained, mlRid, mlPrev, mlRecent, twPc, twTask, scPc,
                    scText, nSpeech, nChat, nIdle, lim, delivered, bargeIns,
                    stopped, issuedFor >>
    /\ UNCHANGED storeVars
    /\ UNCHANGED auxVars

\* play_stream lines 93-112: the stream is exhausted or playback was
\* stopped; close the stream and clear the flag
TtsPlayEnd ==
    /\ twPc = "play_loop"
    /\ ~(written < NumChunks /\ KeepsPlaying)
    /\ stream_open' = FALSE
    /\ is_playing' = FALSE
    /\ twPc' = "finish"
    /\ UNCHANGED << running, llm_input_queue, tts_queue, recent_chats,
                    seen_chats, interrupted_response, current_response_id,
                    history, nextId, mlPc, mlItem, mlDrained, mlRid, mlPrev,
                    mlRecent, twTask, written, scPc, scText, nSpeech, nChat,
                    nIdle, lim, delivered, bargeIns,
                    stopped, issuedFor >>
    /\ UNCHANGED storeVars
    /\ UNCHANGED auxVars

\* play_stream lines 72-73 and 100-112: the stream yields no first chunk, or
\* opening or writing to the device raises; the finally block closes the
\* stream and clears the flag
TtsPlayError ==
    /\ twPc \in {"play_open", "play_loop"}
    /\ stream_open' = FALSE
    /\ is_playing' = FALSE
    /\ twPc' = "finish"
    /\ UNCHANGED << running, llm_input_queue, tts_queue, recent_chats,
                    seen_chats, interrupted_response, current_response_id,
                    history, nextId, mlPc, mlItem, mlDrained, mlRid, mlPrev,
                    mlRecent, twTask, written, scPc, scText, nSpeech, nChat,
                    nIdle, lim, delivered, bargeIns, stopped, issuedFor >>
    /\ UNCHANGED storeVars
    /\ UNCHANGED auxVars

\* play_stream lines 105-109: stop_stream() or close() raises in the finally
\* block (only in the runs with a failing device); the stream is not
\* dropped, the flag is not cleared and the exception leaves play_stream
TtsPlayCleanupRaises ==
    /\ lim.devfail
    /\ twPc = "play_loop"
    /\ stream_open
    /\ twPc' = "raised"
    /\ UNCHANGED << running, llm_input_queue, tts_queue, recent_chats,
                    seen_chats, interrupted_response, current_response_id,
                    history, is_playing, stream_open, nextId, mlPc, mlItem,
                    mlDrained, mlRid, mlPrev, mlRecent, twTask, written, scPc,
                    scText, nSpeech, nChat, nIdle, lim, delivered, bargeIns,
                    stopped, issuedFor >>
    /\ UNCHANGED storeVars
    /\ UNCHANGED auxVars

\* _tts_worker lines 300-302: an exception out of play_stream is caught
TtsCatch ==
    /\ twPc = "raised"
    /\ twPc' = "finish"
    /\ UNCHANGED << running, llm_input_queue, tts_queue, recent_chats,
                    seen_chats, interrupted_response, current_response_id,
                    history, is_playing, stream_open, nextId, mlPc, mlItem,
                    mlDrained, mlRid, mlPrev, mlRecent, twTask, written, scPc,
                    scText, nSpeech, nChat, nIdle, lim, delivered, bargeIns,
                    stopped, issuedFor >>
    /\ UNCHANGED storeVars
    /\ UNCHANGED auxVars

\* lines 310-313: is the handled task's id still the current one?
TtsFinish ==
    /\ twPc = "finish"
    /\ twPc' = IF current_response_id = twTask.response_id THEN "clear" ELSE "get"
    /\ twTask' = IF current_response_id = twTask.response_id THEN twTask ELSE NoTask
    /\ UNCHANGED << running, llm_input_queue, tts_queue, recent_chats,
                    seen_chats, interrupted_response, current_response_id,
                    history, is_playing, stream_open, nextId, mlPc, mlItem,
                    mlDrained, mlRid, mlPrev, mlRecent, written, scPc, scText,
                    nSpeech, nChat, nIdle, lim, delivered, bargeIns,
                    stopped, issuedFor >>
    /\ UNCHANGED storeVars
    /\ UNCHANGED auxVars

\* variant of TtsClear: the worker goes back to the queue without clearing
TtsClearKeepsId ==
    /\ twPc = "clear"
    /\ twPc' = "get"
    /\ twTask' = NoTask
    /\ UNCHANGED << running, llm_input_queue, tts_queue, recent_chats,
                    seen_chats, interrupted_response, current_response_id,
                    history, is_playing, stream_open, nextId, mlPc, mlItem,
                    mlDrained, mlRid, mlPrev, mlRecent, written, scPc, scText,
                    nSpeech, nChat, nIdle, lim, delivered, bargeIns, stopped,
                    issuedFor >>
    /\ UNCHANGED storeVars
    /\ UNCHANGED auxVars

\* line 315: clear the current id
TtsClear ==
    /\ twPc = "clear"
    /\ current_response_id' = None
    /\ twPc' = "get"
    /\ twTask' = NoTask
    /\ UNCHANGED << running, llm_input_queue, tts_queue, recent_chats,
                    seen_chats, interrupted_response, history, is_playing,
                    stream_open, nextId, mlPc, mlItem, mlDrained, mlRid,
                    mlPrev, mlRecent, written, scPc, scText, nSpeech, nChat,
                    nIdle, lim, delivered, bargeIns,
                    stopped, issuedFor >>
    /\ UNCHANGED storeVars
    /\ UNCHANGED auxVars

\* ------------------------------------------------- json.dump / json.load

\* A text is a sequence of characters.  "dq" is the double quote, "bs" the
\* backslash, "nl" the newline, "sp" the space; every other character stands
\* for itself.

\* the escape json.dump writes for one character of a string
\* (ensure_ascii=False: nothing else is escaped)
EscapeChar(c) ==
    IF c = "dq" THEN << "bs", "dq" >>
    ELSE IF c = "bs" THEN << "bs", "bs" >>
    ELSE IF c = "nl" THEN << "bs", "n" >>
    ELSE << c >>

RECURSIVE Escape(_)
Escape(s) == IF s = << >> THEN << >> ELSE EscapeChar(Head(s)) \o Escape(Tail(s))

\* a string as json.dump writes it
EncodeString(s) == << "dq" >> \o Escape(s) \o << "dq" >>

Indent(n) == [i \in 1..n |-> "sp"]

\* the items of a list or object, each on a line of its own at the given
\* indentation, separated by commas
RECURSIVE DumpItems(_, _)
DumpItems(items, ind) ==
    IF items = << >> THEN << >>
    ELSE << "nl" >> \o Indent(ind) \o Head(items)
         \o (IF Len(items) > 1 THEN << "," >> ELSE << >>)
         \o DumpItems(Tail(items), ind)

\* json.dump of a list whose items are already written, at nesting depth
\* `level` with `step` spaces per level
DumpList(items, level, step) ==
    IF items = << >> THEN << "[", "]" >>
    ELSE << "[" >> \o DumpItems(items, level + step)
         \o << "nl" >> \o Indent(level) \o << "]" >>

\* json.dump of a dict (a sequence of <<key, value>> pairs in insertion
\* order, all values strings)
DumpObject(entry, level, step) ==
    IF entry = << >> THEN << "{", "}" >>
    ELSE << "{" >>
         \o DumpItems([i \in 1..Len(entry) |->
                          EncodeString(entry[i][1]) \o << ":", "sp" >>
                             \o EncodeString(entry[i][2])],
                      level + step)
         \o << "nl" >> \o Indent(level) \o << "}" >>

\* json.dump(list(self.memories), f, ensure_ascii=False, indent=4)
JsonDumpMemories(mem) ==
    DumpList([i \in 1..Len(mem) |-> EncodeString(mem[i])], 0, 4)

\* json.dump(self.core_memories, f, ensure_ascii=False, indent=2)
JsonDumpCore(cm) ==
    DumpList([i \in 1..Len(cm) |-> DumpObject(cm[i], 2, 2)], 0, 2)

\* json.load: skip white space
RECURSIVE SkipWs(_, _)
SkipWs(t, p) ==
    IF p <= Len(t) /\ t[p] \in {"nl", "sp"} THEN SkipWs(t, p + 1) ELSE p

\* variant of Unescape: the escaped character is taken as it is
UnescapeRaw(c) == c

\* the character an escape stands for
Unescape(c) == IF c = "n" THEN "nl" ELSE c

\* json.load: the characters of a string up to its closing quote; p is the
\* position after the opening quote
RECURSIVE ScanString(_, _, _)
ScanString(t, p, acc) ==
    IF t[p] = "dq" THEN [v |-> acc, p |-> p + 1]
    ELSE IF t[p] = "bs"
         THEN ScanString(t, p + 2, Append(acc, Unescape(t[p + 1])))
         ELSE ScanString(t, p + 1, Append(acc, t[p]))

\* json.load: a string starting at its opening quote
ParseString(t, p) == ScanString(t, p + 1, << >>)

\* json.load: the key/value pairs of an object; p is the position of the
\* next key or of the closing brace
RECURSIVE ParsePairs(_, _, _)
ParsePairs(t, p, acc) ==
    LET q == SkipWs(t, p)
    IN  IF t[q] = "}" THEN [v |-> acc, p |-> q + 1]
        ELSE IF t[q] = "," THEN ParsePairs(t, q + 1, acc)
        ELSE LET k   == ParseString(t, q)
                 col == SkipWs(t, k.p)
                 val == ParseString(t, SkipWs(t, col + 1))
             IN  ParsePairs(t, val.p, Append(acc, << k.v, val.v >>))

\* json.load: the items of a list (strings or objects); p is the position
\* of the next item or of the closing bracket
RECURSIVE ParseItems(_, _, _)
ParseItems(t, p, acc) ==
    LET q == SkipWs(t, p)
    IN  IF t[q] = "]" THEN acc
        ELSE IF t[q] = "," THEN ParseItems(t, q + 1, acc)
        ELSE LET item == IF t[q] = "{" THEN ParsePairs(t, q + 1, << >>)
                         ELSE ParseString(t, q)
             IN  ParseItems(t, item.p, Append(acc, item.v))

\* json.load of a file holding a list
JsonLoad(t) == ParseItems(t, SkipWs(t, 1) + 1, << >>)

\* ----------------------------------------------------------- file writes

\* what open(path, 'w') and the write raise when they fail: OSError or one
\* of its subclasses
WriteErrors == {"OSError", "PermissionError"}

\* how writing a file can end: all of it is written, open() fails and the
\* file stays as it was, or the file is truncated and the write breaks off
WriteOutcomes ==
    IF Len(failed_writes) < lim.fails
    THEN {"written", "unopened", "torn"}
    ELSE {"written"}

FileAfter(old, content, outcome) ==
    IF outcome = "written" THEN content
    ELSE IF outcome = "unopened" THEN old
    ELSE Torn

\* variant of CatchesIOError and CatchesException: a handler that lets the
\* error through
CatchesNothing(e) == FALSE

\* _save_memories line 41, except IOError (IOError is OSError)
CatchesIOError(e) == e \in {"OSError", "PermissionError", "FileNotFoundError"}

\* _save_core_memories line 79, except Exception
CatchesException(e) == TRUE

\* the record of a failed write: the store, the operation that was saving,
\* and how that operation ended
FailedWrite(store, op, caught) ==
    [store |-> store, op |-> op,
     call |-> IF caught THEN "returned" ELSE "raised"]

\* the log of failed writes after one write
LogWrite(outcome, store, op, caught) ==
    IF outcome = "written" THEN failed_writes
    ELSE Append(failed_writes, FailedWrite(store, op, caught))

\* ------------------------------------------------------- LongTermMemory

\* the strings passed to add_memory: the empty string, plain text, text
\* with a quote, with a backslash, with a newline and a comma
MemoryStrings ==
    { << >>, << "a" >>, << "dq" >>, << "bs", "a" >>, << "nl", "," >> }

Range(s) == {s[i] : i \in 1..Len(s)}

\* deque(maxlen=n).extend(data) on an empty deque
DequeExtend(data, n) == LastK(data, n)

\* _load_memories: the list in the file, or nothing when there is no file
\* or json.load raises on it
LoadMemories(file, n) ==
    IF file = Absent \/ file = Torn THEN << >> ELSE DequeExtend(JsonLoad(file), n)

\* variant of IsNewMemory: every non-empty string is stored
IsNewMemoryAlways(m) == m # << >>

\* add_memory line 51: the string is non-empty and not yet stored
IsNewMemory(m) == m # << >> /\ m \notin Range(memories)

\* add_memory: append a new string (the deque evicts its oldest entry when
\* full) and save; do nothing for an empty or known string
AddMemory ==
    /\ Len(ltm_ops) < lim.calls
    /\ \E m \in MemoryStrings :
          /\ ltm_ops' = Append(ltm_ops, [op |-> "add", arg |-> m])
          /\ IF IsNewMemory(m)
             THEN /\ memories' = DequeAppend(memories, m, max_entries)
                  /\ ltm_writes' = ltm_writes + 1
                  /\ \E out \in WriteOutcomes, e \in WriteErrors :
                        /\ ltm_file' = FileAfter(ltm_file,
                                          JsonDumpMemories(memories'), out)
                        /\ failed_writes' =
                              LogWrite(out, "ltm", "add", CatchesIOError(e))
             ELSE UNCHANGED << memories, ltm_file, ltm_writes, failed_writes >>
    /\ UNCHANGED << max_entries, core_memories, core_file >>
    /\ UNCHANGED orchVars

\* _save_memories: write the list to the file
SaveMemories ==
    /\ Len(ltm_ops) < lim.calls
    /\ ltm_ops' = Append(ltm_ops, [op |-> "save", arg |-> << >>])
    /\ ltm_writes' = ltm_writes + 1
    /\ \E out \in WriteOutcomes, e \in WriteErrors :
          /\ ltm_file' = FileAfter(ltm_file, JsonDumpMemories(memories), out)
          /\ failed_writes' = LogWrite(out, "ltm", "save", CatchesIOError(e))
    /\ UNCHANGED << max_entries, memories, core_memories, core_file >>
    /\ UNCHANGED orchVars

\* LongTermMemory.__init__ on the same path: a new store loads the file
LoadNewStore ==
    /\ Len(ltm_ops) < lim.calls
    /\ ltm_ops' = Append(ltm_ops, [op |-> "load", arg |-> << >>])
    /\ memories' = LoadMemories(ltm_file, max_entries)
    /\ UNCHANGED << max_entries, ltm_file, ltm_writes, core_memories, core_file, failed_writes >>
    /\ UNCHANGED orchVars

\* -------------------------------------------------- CoreMemoryProcessor

\* the dict _save_core_memory_function builds
CoreEntry(text, level) ==
    << << << "memory_text" >>, text >>,
       << << "importance_level" >>, level >>,
       << << "category" >>, << "context" >> >>,
       << << "timestamp" >>, << "2", "0", ":", "0", "0" >> >> >>

\* the memory_text arguments of the function call: text with a quote, text
\* with a newline and a comma
CoreTexts == { << "dq" >>, << "nl", "," >> }

\* _load_core_memories: the list in the file, or nothing when there is no
\* file or json.load raises on it
LoadCoreMemories(file) ==
    IF file = Absent \/ file = Torn THEN << >> ELSE JsonLoad(file)

\* _save_core_memories, called by operation op: write the list to the file
SaveCoreMemories(op) ==
    \E out \in WriteOutcomes, e \in WriteErrors :
       /\ core_file' = FileAfter(core_file, JsonDumpCore(core_memories'), out)
       /\ failed_writes' = LogWrite(out, "core", op, CatchesException(e))

\* the importance_level arguments of the function call
CoreLevels == { << "critical" >>, << "medium" >> }

\* variant of CoreAfterSave: an entry equal to a stored one is not added
CoreAfterSaveUnique(cm, entry) ==
    IF \E i \in 1..Len(cm) : cm[i] = entry THEN cm ELSE Append(cm, entry)

\* _save_core_memory_function line 93: self.core_memories.append(entry)
CoreAfterSave(cm, entry) == Append(cm, entry)

\* _save_core_memory_function: append the entry and save
SaveCoreMemory ==
    /\ Len(core_memories) < lim.core
    /\ \E text \in CoreTexts, level \in CoreLevels :
          core_memories' = CoreAfterSave(core_memories, CoreEntry(text, level))
    /\ SaveCoreMemories("save")
    /\ UNCHANGED << max_entries, memories, ltm_file, ltm_writes, ltm_ops >>
    /\ UNCHANGED orchVars

\* remove_core_memory(index): drop the entry and save
RemoveCoreMemory ==
    /\ lim.core > 0
    /\ \E index \in 1..Len(core_memories) :
          core_memories' = SubSeq(core_memories, 1, index - 1)
                              \o SubSeq(core_memories, index + 1, Len(core_memories))
    /\ SaveCoreMemories("remove")
    /\ UNCHANGED << max_entries, memories, ltm_file, ltm_writes, ltm_ops >>
    /\ UNCHANGED orchVars

\* clear_core_memories: drop every entry and save
ClearCoreMemories ==
    /\ lim.core > 0
    /\ core_memories # << >>
    /\ core_memories' = << >>
    /\ SaveCoreMemories("clear")
    /\ UNCHANGED << max_entries, memories, ltm_file, ltm_writes, ltm_ops >>
    /\ UNCHANGED orchVars

\* CoreMemoryProcessor.__init__ on the same path: a new processor loads
\* the file
LoadNewProcessor ==
    /\ lim.core > 0
    /\ core_file # Absent
    /\ core_memories' = LoadCoreMemories(core_file)
    /\ UNCHANGED << max_entries, memories, ltm_file, ltm_writes, ltm_ops, core_file, failed_writes >>
    /\ UNCHANGED orchVars

\* ------------------------------------------- process_long_term_memories

\* the function calls of one reply: up to MaxToolCalls calls of
\* save_core_memory, each with a text and an importance level
ToolCalls ==
    UNION { [1..n -> [text : CoreTexts, level : CoreLevels]]
               : n \in 0..MaxToolCalls }

\* lines 161-171: the handler is called for each function call in turn
RECURSIVE SaveAll(_, _)
SaveAll(cm, calls) ==
    IF calls = << >> THEN cm
    ELSE SaveAll(CoreAfterSave(cm, CoreEntry(Head(calls).text, Head(calls).level)),
                 Tail(calls))

\* the record of one distillation attempt: who made it, the long-term
\* memories at hand, whether process_long_term_memories was called, and the
\* function calls it dispatched to the handler
Attempt(by, mems, invoked, calls) ==
    [by |-> by, memories |-> mems, invoked |-> invoked, calls |-> calls]

\* process_long_term_memories(mems): nothing to do for an empty list;
\* otherwise ask the model and dispatch its function calls; an error of the
\* model call is caught (line 176) and nothing is saved.  Every handler
\* call saves the whole list, so the file holds the list after the last call.
ProcessLongTermMemories(by, mems) ==
    IF mems = << >>
    THEN /\ distill_log' = Append(distill_log, Attempt(by, mems, TRUE, << >>))
         /\ UNCHANGED << core_memories, core_file, failed_writes >>
    ELSE \E calls \in ToolCalls :
            /\ Len(core_memories) + Len(calls) <= lim.core
            /\ distill_log' = Append(distill_log, Attempt(by, mems, TRUE, calls))
            /\ core_memories' = SaveAll(core_memories, calls)
            /\ IF calls = << >>
               THEN UNCHANGED << core_file, failed_writes >>
               ELSE SaveCoreMemories("save")

\* test_core_memory.py line 45: process_long_term_memories called directly
ProcessDirect ==
    /\ Len(distill_log) < lim.ticks
    /\ \E mems \in {<< >>, << << "a" >> >>} :
          ProcessLongTermMemories("test", mems)
    /\ UNCHANGED << max_entries, memories, ltm_file, ltm_writes, ltm_ops >>
    /\ UNCHANGED << running, llm_input_queue, tts_queue, recent_chats,
                    seen_chats, interrupted_response, current_response_id,
                    history, is_playing, stream_open, nextId, mlPc, mlItem,
                    mlDrained, mlRid, mlPrev, mlRecent, twPc, twTask, written,
                    scPc, scText, nSpeech, nChat, nIdle, lim, delivered,
                    bargeIns, stopped, issuedFor >>
    /\ UNCHANGED << api_key, threads, start_log, chat_log, faulted, last_chats,
                    emitted, nPolls, stop_log,
                    queuedAt, idle_elapsed, iwPc, fetch_log, exited >>

\* the methods of LongTermMemory (long_term_memory.py lines 11-74)
LongTermMemoryMethods ==
    { "__init__", "_load_memories", "_save_memories", "add_memory",
      "get_memories", "get_all_memories_as_text" }

\* attribute lookup on a LongTermMemory: a name that is not a method raises
\* AttributeError
HasMethod(name) == name \in LongTermMemoryMethods

\* _core_memory_worker lines 409-437: the interval has elapsed; the worker
\* asks the long-term memory for its entries (line 418) and, if there are
\* any, passes them to process_long_term_memories; an exception is caught
\* at line 434
CoreMemoryTick ==
    /\ running
    /\ threads
    /\ Len(distill_log) < lim.ticks
    /\ IF ~HasMethod("get_all_memories") \/ memories = << >>
       THEN /\ distill_log' =
                  Append(distill_log, Attempt("worker", memories, FALSE, << >>))
            /\ UNCHANGED << core_memories, core_file, failed_writes >>
       ELSE ProcessLongTermMemories("worker", memories)
    /\ UNCHANGED << max_entries, memories, ltm_file, ltm_writes, ltm_ops >>
    /\ UNCHANGED << running, llm_input_queue, tts_queue, recent_chats,
                    seen_chats, interrupted_response, current_response_id,
                    history, is_playing, stream_open, nextId, mlPc, mlItem,
                    mlDrained, mlRid, mlPrev, mlRecent, twPc, twTask, written,
                    scPc, scText, nSpeech, nChat, nIdle, lim, delivered,
                    bargeIns, stopped, issuedFor >>
    /\ UNCHANGED << api_key, threads, start_log, chat_log, faulted, last_chats,
                    emitted, nPolls, stop_log,
                    queuedAt, idle_elapsed, iwPc, fetch_log, exited >>

\* ------------------------------------------------------ AudioPlayer.stop

\* test_interrupt_demo.py line 29: the flag is set with no stream opened
TestSetFlag ==
    /\ ~is_playing
    /\ twPc \notin {"play_open", "play_loop"}
    /\ is_playing' = TRUE
    /\ UNCHANGED << running, llm_input_queue, tts_queue, recent_chats,
                    seen_chats, interrupted_response, current_response_id,
                    history, stream_open, nextId, mlPc, mlItem, mlDrained,
                    mlRid, mlPrev, mlRecent, twPc, twTask, written, scPc,
                    scText, nSpeech, nChat, nIdle, lim, delivered, bargeIns,
                    stopped, issuedFor >>
    /\ UNCHANGED storeVars
    /\ UNCHANGED auxVars

\* AudioPlayer.stop() called directly (test_interrupt_demo.py line 34): the
\* flag is cleared first; a held stream is stopped and closed, an error of
\* the device is caught at line 157 and the stream dropped at line 160
StopCall ==
    /\ Len(stop_log) < lim.stops
    /\ \E out \in StreamCloseOutcomes, e \in WriteErrors :
          LET caught == out # "raised" \/ CatchesException(e)
          IN  stop_log' = Append(stop_log,
                  [before |-> PlayerState,
                   call   |-> IF caught THEN "returned" ELSE "raised"])
    /\ PlayerStop
    /\ UNCHANGED << running, llm_input_queue, tts_queue, recent_chats,
                    seen_chats, interrupted_response, current_response_id,
                    history, nextId, mlPc, mlItem, mlDrained, mlRid, mlPrev,
                    mlRecent, twPc, twTask, written, scPc, scText, nSpeech,
                    nChat, nIdle, lim, delivered, bargeIns, stopped,
                    issuedFor >>
    /\ UNCHANGED storeVars
    /\ UNCHANGED << api_key, threads, start_log, chat_log, faulted, last_chats,
                    emitted, nPolls, distill_log,
                    queuedAt, idle_elapsed, iwPc, fetch_log, exited >>

\* ------------------------------------------------------------------ Next

Next ==
    \/ Start
    \/ SttArrive
    \/ SttStoreRecord
    \/ SttPurge
    \/ SttEnqueue
    \/ ChatCallback
    \/ IdleFire
    \/ MainDrain
    \/ MainIssue
    \/ MainPrep
    \/ MainGenerate
    \/ TtsGet
    \/ TtsSynth
    \/ TtsPlayOpen
    \/ TtsPlayChunk
    \/ TtsPlayEnd
    \/ TtsPlayError
    \/ TtsFinish
    \/ TtsClear

Spec == Init /\ [][Next]_vars

\* speech bursts: no chat traffic
NextSpeech ==
    \/ Start
    \/ SttArrive
    \/ SttStoreRecord
    \/ SttPurge
    \/ SttEnqueue
    \/ IdleFire
    \/ MainDrain
    \/ MainIssue
    \/ MainPrep
    \/ MainGenerate
    \/ TtsGet
    \/ TtsSynth
    \/ TtsPlayOpen
    \/ TtsPlayChunk
    \/ TtsPlayEnd
    \/ TtsPlayError
    \/ TtsFinish
    \/ TtsClear

SpecSpeech == InitWith(SpeechBudget) /\ [][NextSpeech]_vars

\* speech and idle events that never outnumber the response ids of one run
LiveBudget == [speech |-> MaxResp - MaxIdle, chat |-> 0, idle |-> MaxIdle,
               uuids |-> "distinct"] @@ NoStoreOps

\* the worker threads, the main loop and a running callback are scheduled
\* again and again, and every external call (recognition refinement,
\* language model, synthesis, audio device) returns or raises; the arrival
\* of events is not required
Fairness ==
    /\ WF_vars(SttStoreRecord) /\ WF_vars(SttPurge) /\ WF_vars(SttEnqueue)
    /\ WF_vars(MainDrain) /\ WF_vars(MainIssue) /\ WF_vars(MainPrep)
    /\ WF_vars(MainGenerate)
    /\ WF_vars(TtsGet) /\ WF_vars(TtsSynth) /\ WF_vars(TtsPlayOpen)
    /\ WF_vars(TtsPlayChunk) /\ WF_vars(TtsPlayEnd) /\ WF_vars(TtsFinish)
    /\ WF_vars(TtsClear)

SpecLive == InitWith(LiveBudget) /\ [][NextSpeech]_vars /\ Fairness

\* chat traffic: nobody speaks
NextChat ==
    \/ Start
    \/ ChatCallback
    \/ IdleFire
    \/ MainDrain
    \/ MainIssue
    \/ MainPrep
    \/ MainGenerate
    \/ TtsGet
    \/ TtsSynth
    \/ TtsPlayOpen
    \/ TtsPlayChunk
    \/ TtsPlayEnd
    \/ TtsPlayError
    \/ TtsFinish
    \/ TtsClear

SpecChat == InitWith(ChatBudget) /\ [][NextChat]_vars

\* the chat collector thread alone: it polls the page while the main loop
\* has not yet taken anything off the queue
CollectorBudget == [polls |-> MaxPolls] @@ NoEvents @@ NoStoreOps

NextCollector ==
    \/ Start
    \/ CollectorPoll

SpecCollector == InitWith(CollectorBudget) /\ [][NextCollector]_vars

\* the collector with fetches that fail; no line passes the response trial
\* (chat.response_chance = 0)
FetchBudget == [polls |-> MaxPolls + 1, fetchfails |-> TRUE, chance |-> "never"]
               @@ NoEvents @@ NoStoreOps

SpecFetch == InitWith(FetchBudget) /\ [][NextCollector]_vars

\* start() is called again and again, first perhaps without an API key;
\* idle triggers alone drive the pipeline
StartBudget == [speech |-> 0, chat |-> 0, idle |-> MaxIdle, uuids |-> "distinct",
                keys |-> BOOLEAN, starts |-> MaxStarts] @@ NoStoreOps

NextStart ==
    \/ Start
    \/ SetApiKey
    \/ IdleFire
    \/ MainDrain
    \/ MainIssue
    \/ MainPrep
    \/ MainGenerate
    \/ TtsGet
    \/ TtsSynth
    \/ TtsPlayOpen
    \/ TtsPlayChunk
    \/ TtsPlayEnd
    \/ TtsPlayError
    \/ TtsFinish
    \/ TtsClear

SpecStart == InitWith(StartBudget) /\ [][NextStart]_vars

\* speech bursts in which the interruption handling of a barge-in may fail
FaultBudget == [faults |-> MaxFaults] @@ SpeechBudget

NextFault ==
    \/ NextSpeech
    \/ SttInterruptError

SpecFault == InitWith(FaultBudget) /\ [][NextFault]_vars

\* the idle worker step by step against a clock, with the pipeline it feeds
IdleBudget == [speech |-> 0, chat |-> 0, idle |-> MaxIdlePosts,
               uuids |-> "distinct", clock |-> MaxElapsed] @@ NoStoreOps

NextIdle ==
    \/ Start
    \/ Tick
    \/ IdleCheck
    \/ IdlePost
    \/ MainDrain
    \/ MainIssue
    \/ MainPrep
    \/ MainGenerate
    \/ TtsGet
    \/ TtsSynth
    \/ TtsPlayOpen
    \/ TtsPlayChunk
    \/ TtsPlayEnd
    \/ TtsPlayError
    \/ TtsFinish
    \/ TtsClear

SpecIdle == InitWith(IdleBudget) /\ [][NextIdle]_vars

\* the player under the idle-driven pipeline, stopped directly at any time
PlayerBudget == [speech |-> 0, chat |-> 0, idle |-> MaxIdle, uuids |-> "distinct",
                 stops |-> MaxStops, devfail |-> TRUE] @@ NoStoreOps

NextPlayer ==
    \/ Start
    \/ IdleFire
    \/ MainDrain
    \/ MainIssue
    \/ MainPrep
    \/ MainGenerate
    \/ TtsGet
    \/ TtsSynth
    \/ TtsPlayOpen
    \/ TtsPlayChunk
    \/ TtsPlayEnd
    \/ TtsPlayError
    \/ TtsFinish
    \/ TtsClear
    \/ TtsPlayCleanupRaises
    \/ TtsCatch
    \/ TestSetFlag
    \/ StopCall

SpecPlayer == InitWith(PlayerBudget) /\ [][NextPlayer]_vars

\* every event source, uuid4 unconstrained
SpecToken == InitWith(TokenBudget) /\ [][Next]_vars

\* the long-term memory alone
NextMemory ==
    \/ AddMemory
    \/ SaveMemories
    \/ LoadNewStore

SpecMemory == InitWith(MemoryBudget) /\ [][NextMemory]_vars

\* both memory stores
NextStores ==
    \/ AddMemory
    \/ SaveMemories
    \/ LoadNewStore
    \/ SaveCoreMemory
    \/ RemoveCoreMemory
    \/ ClearCoreMemories
    \/ LoadNewProcessor

SpecStores == InitWith(StoresBudget) /\ [][NextStores]_vars

\* the core memory: distillation called directly, entries removed and
\* cleared, the file loaded again
CoreBudget == [core |-> ManyCore, ticks |-> MaxTicks] @@ NoEvents @@ NoStoreOps

NextCore ==
    \/ ProcessDirect
    \/ RemoveCoreMemory
    \/ ClearCoreMemories
    \/ LoadNewProcessor

SpecCore == InitWith(CoreBudget) /\ [][NextCore]_vars

\* the running orchestrator with its distiller: the long-term memory gains
\* entries and the distiller's interval elapses
DistillBudget == [calls |-> FewCalls, ticks |-> MaxTicks, core |-> ManyCore]
                 @@ NoEvents @@ NoStoreOps

NextDistill ==
    \/ Start
    \/ AddMemory
    \/ CoreMemoryTick

SpecDistill == InitWith(DistillBudget) /\ [][NextDistill]_vars

\* one of the memory stores, with file writes that fail
LtmPersist  == [calls |-> FewCalls + 1, core |-> 0, caps |-> {MaxEntries},
                fails |-> MaxFail] @@ NoEvents
CorePersist == [calls |-> 0, core |-> ManyCore, caps |-> {MaxEntries},
                fails |-> MaxFail] @@ NoEvents

SpecPersist ==
    /\ InitWith(LtmPersist) \/ InitWith(CorePersist)
    /\ [][NextStores]_vars


\* ================================================================ claims

\* C1 (single-flight): at any observation point at most one response id is
\* non-idle, i.e. being generated by the main loop, being synthesized by the
\* TTS worker or being played by the audio player.
C1_SingleFlight == Cardinality(ActiveIds) <= 1


\* C2 (preemption): a response that is active in any phase (generation,
\* synthesis request, playback) when a speech utterance is delivered to
\* _stt_callback is preempted: it is taken off the pipeline within the
\* interruption window, so it never begins audio playback after that
\* utterance was delivered.
C2_Preemption ==
    [][\A r \in 1..MaxResp :
          (\E s \in 1..nSpeech : r \in delivered[s])
             => ~(~Playing(r) /\ Playing(r)')]_vars

\* the system-role history entries that refer to utterance s
SystemEntriesFor(s) ==
    Cardinality({i \in 1..Len(history) :
                    history[i].role = "system" /\ history[i].ref = s})

\* C3: for every preemption by a speech utterance the history holds exactly
\* one system-role interruption entry, counting those added by _stt_callback
\* and by run_main_loop (checked once the callback has returned).
C3_OneInterruptionEntry ==
    \A s \in bargeIns : scText # s => SystemEntriesFor(s) = 1

\* C4: an interruption clears current_response_id before it stores the
\* interruption record: whenever a record is stored the id is already None.
C4_ClearedBeforeRecord ==
    [][(interrupted_response' # interrupted_response
          /\ interrupted_response' # NoRecord)
         => current_response_id = None]_vars

\* a response on its way through the pipeline: generated, queued for
\* synthesis, synthesized, played, or being completed by the TTS worker
InFlight(r) ==
    \/ Active(r)
    \/ \E i \in 1..Len(tts_queue) : tts_queue[i].response_id = r
    \/ twPc \in {"finish", "clear"} /\ twTask.response_id = r

\* C5: a non-null current_response_id is the id of the response being
\* generated, synthesized or played; the audio player never plays a
\* response whose id differs from a non-null current_response_id.
C5_CurrentIsInFlight ==
    current_response_id # None =>
       /\ InFlight(current_response_id)
       /\ \A r \in 1..MaxResp :
             (is_playing /\ Playing(r)) => r = current_response_id

\* C6 (newest wins): when the drained items include a speech item, the item
\* chosen is the speech item with the maximum timestamp.
C6_NewestSpeechWins ==
    (mlPc = "issue"
       /\ \E i \in 1..Len(mlDrained) : mlDrained[i].source = "stt")
    => /\ mlItem.source = "stt"
       /\ \A i \in 1..Len(mlDrained) :
             mlDrained[i].source = "stt"
                => mlItem.timestamp >= mlDrained[i].timestamp

\* C7 (idle suppression): an idle item is never chosen while a response is
\* non-idle, nor when a speech or chat item was pending at the same drain.
C7_IdleSuppression ==
    (mlPc = "issue" /\ mlItem.source = "idle")
    => /\ ActiveIds = {}
       /\ \A i \in 1..Len(mlDrained) : mlDrained[i].source = "idle"

\* the last item of the given source among the drained items
LastOf(src) ==
    LET idx == {i \in 1..Len(mlDrained) : mlDrained[i].source = src}
    IN  mlDrained[CHOOSE i \in idx : \A j \in idx : j <= i]

HasSource(src) == \E i \in 1..Len(mlDrained) : mlDrained[i].source = src

\* C8: when none of the drained items is a speech item, the main loop takes
\* the most recently enqueued chat item, and the most recent idle item only
\* if there is no chat item.
C8_LatestChatThenIdle ==
    (mlPc = "issue" /\ ~HasSource("stt"))
    => mlItem = IF HasSource("chat") THEN LastOf("chat") ELSE LastOf("idle")

\* C9 (burst coalescing): of the speech utterances that arrive while the
\* pipeline is busy with one response only the last gets a response: no
\* response is generated for an utterance when a later utterance was
\* delivered while the pipeline was busy with the same response.
C9_BurstCoalescing ==
    \A r \in 1..Len(issuedFor) :
       issuedFor[r].source = "stt" =>
          \A s2 \in (issuedFor[r].id + 1)..nSpeech :
             delivered[issuedFor[r].id] \cap delivered[s2] = {}

\* C10 (chat window split): previous_chats followed by recent_chats is the
\* window snapshot taken at assembly, also once the window evicts.
C10_WindowSplit ==
    mlPc = "gen" => mlPrev \o mlRecent = seen_chats

\* C11: an interruption record is consumed by the very next response the main
\* loop processes after the preemption: a response that was issued after the
\* preempting utterance was delivered and that reaches the consumption point
\* (lines 498-510) while the record is pending consumes it there.
C11_NextResponseConsumes ==
    [][(mlPc = "prep" /\ mlPc' = "gen"
          /\ interrupted_response # NoRecord
          /\ mlRid \notin delivered[interrupted_response.by])
         => interrupted_response' = NoRecord]_vars

\* C12: the stored interruption record references the cancelled response:
\* its response_id is the id of the response whose audio was playing and was
\* stopped by the barge-in that stored it.
C12_RecordNamesStopped ==
    interrupted_response # NoRecord
       => interrupted_response.response_id = stopped[interrupted_response.by]

\* barge-in utterances for which no response has been issued yet (neither
\* for the utterance itself nor for a later utterance)
UnansweredBargeIns ==
    {s \in bargeIns :
        \A r \in 1..Len(issuedFor) :
           ~(issuedFor[r].source = "stt" /\ issuedFor[r].id >= s)}

\* C13: after a barge-in by an utterance, the next response the main loop
\* issues is for that speaker's turn (the utterance or a later one), and the
\* history it is generated from (its own user/model entries are appended
\* after generation) already holds the callback's system entry that names
\* the speaker and the text.
C13_NextResponseIsForBargeIn ==
    [][(mlPc = "issue" /\ mlPc' = "prep")
         => \A s \in UnansweredBargeIns :
               /\ mlItem.source = "stt"
               /\ mlItem.id >= s
               /\ \E i \in 1..Len(history) :
                     history[i] = SystemMessage("callback", s)]_vars

Quiescent == current_response_id = None /\ ~is_playing

C16_NoStaleChunk ==
    [][written' > written => current_response_id = twTask.response_id]_vars

\* C17 (token monotonicity): the ids of successively issued responses are
\* strictly increasing, hence no two issued ids are equal.
C17_TokensIncrease ==
    \A i, j \in 1..Len(issuedFor) :
       i < j => issuedFor[i].response_id < issuedFor[j].response_id

\* the operation the long-term memory has just carried out
LastOp == ltm_ops[Len(ltm_ops)]

\* C18 (memory idempotence): add_memory with a string already present
\* leaves the in-memory sequence (content and order) and the persisted file
\* unchanged, and performs no write.
C18_AddKnownIsNoOp ==
    [][(Len(ltm_ops') = Len(ltm_ops) + 1
          /\ ltm_ops'[Len(ltm_ops')].op = "add"
          /\ ltm_ops'[Len(ltm_ops')].arg \in Range(memories))
         => /\ memories' = memories
            /\ ltm_file' = ltm_file
            /\ ltm_writes' = ltm_writes]_vars

\* a string was added to the empty store and then added again
C18_AddedTwice ==
    /\ Len(ltm_ops) = 2
    /\ ltm_ops[1].op = "add" /\ ltm_ops[2] = ltm_ops[1]
    /\ ltm_ops[1].arg # << >>
    /\ memories = << ltm_ops[1].arg >>
    /\ ltm_writes = 1

\* the operations so far are add_memory calls with n strings followed by the
\* same n strings in the same order
IsAddThenReAdd(n) ==
    /\ n >= 1
    /\ Len(ltm_ops) = 2 * n
    /\ \A i \in 1..(2 * n) : ltm_ops[i].op = "add"
    /\ \A i \in 1..n : ltm_ops[n + i].arg = ltm_ops[i].arg
    /\ \A i, j \in 1..n : i # j => ltm_ops[i].arg # ltm_ops[j].arg

\* the strings of the first n operations
FirstArgs(n) == [i \in 1..n |-> ltm_ops[i].arg]

Min(a, b) == IF a <= b THEN a ELSE b

NoDuplicates(s) == \A i, j \in 1..Len(s) : i # j => s[i] # s[j]

\* C19 as stated: for any N and cap, N add_memory calls with distinct
\* strings followed by re-adding each of them in the same order give a
\* store of size exactly min(N, cap); the store never exceeds cap and never
\* holds duplicates.
C19_SizeIsMinAnyStrings ==
    /\ Len(memories) <= max_entries
    /\ NoDuplicates(memories)
    /\ \A n \in 1..MaxCalls :
          IsAddThenReAdd(n) => Len(memories) = Min(n, max_entries)

\* C19, amended: the same for N distinct non-empty strings (add_memory
\* ignores the empty string); the store then holds the last min(N, cap) of
\* them in the order of insertion, the oldest having been evicted first.
C19_SizeIsMinNonEmpty ==
    /\ Len(memories) <= max_entries
    /\ NoDuplicates(memories)
    /\ \A n \in 1..MaxCalls :
          (IsAddThenReAdd(n) /\ \A i \in 1..n : ltm_ops[i].arg # << >>)
             => /\ Len(memories) = Min(n, max_entries)
                /\ memories = LastK(FirstArgs(n), max_entries)

\* more distinct non-empty strings than the store holds were added and
\* re-added
C19_OverflowReAdded ==
    \E n \in 1..MaxCalls :
       /\ IsAddThenReAdd(n)
       /\ \A i \in 1..n : ltm_ops[i].arg # << >>
       /\ n > max_entries
       /\ max_entries > 1

\* C20 (round trip): for both stores, persisting the store, loading a new
\* store from that file and persisting again yields the same file content,
\* and the loaded sequence equals the original; the file on disk, once
\* written, loads to the store in memory and is reproduced by persisting it.
C20_RoundTrip ==
    /\ LET f      == JsonDumpMemories(memories)
           loaded == LoadMemories(f, max_entries)
       IN  loaded = memories /\ JsonDumpMemories(loaded) = f
    /\ LET g      == JsonDumpCore(core_memories)
           loaded == LoadCoreMemories(g)
       IN  loaded = core_memories /\ JsonDumpCore(loaded) = g
    /\ ltm_file # Absent =>
          /\ LoadMemories(ltm_file, max_entries) = memories
          /\ JsonDumpMemories(LoadMemories(ltm_file, max_entries)) = ltm_file
    /\ core_file # Absent =>
          /\ LoadCoreMemories(core_file) = core_memories
          /\ JsonDumpCore(LoadCoreMemories(core_file)) = core_file

\* a new long-term memory has just loaded a file holding a string with a
\* newline and a comma, and the core memory file holds an entry whose text
\* is a quote
C20_LoadedEscapedStrings ==
    /\ ltm_ops # << >> /\ LastOp.op = "load"
    /\ memories = << << "nl", "," >> >>
    /\ core_file # Absent
    /\ \E i \in 1..Len(core_memories) : core_memories[i][1][2] = << "dq" >>

\* the file holds text (it exists and its last write was completed)
IsText(file) == ~(file = Absent \/ file = Torn)

SameFile(a, b) == IF IsText(a) /\ IsText(b) THEN a = b
                  ELSE ~IsText(a) /\ ~IsText(b) /\ a = b

\* the operation whose write has just failed
LastFailure == failed_writes[Len(failed_writes)]

\* C21: a persistence failure never fails the calling operation: when the
\* file write fails during add_memory or during a core-memory save, the call
\* returns normally and the new value is retained in memory; and a mutation
\* whose write succeeds writes the full current content.
C21_WriteFailureTolerated ==
    [][/\ \A i \in 1..Len(failed_writes') : failed_writes'[i].call = "returned"
       /\ (Len(failed_writes') > Len(failed_writes) /\ LastFailure'.op = "add")
            => memories' = DequeAppend(memories, LastOp'.arg, max_entries)
       /\ (Len(failed_writes') > Len(failed_writes) /\ LastFailure'.op = "save"
             /\ LastFailure'.store = "core")
            => /\ Len(core_memories') = Len(core_memories) + 1
               /\ SubSeq(core_memories', 1, Len(core_memories)) = core_memories
       /\ (ltm_writes' > ltm_writes /\ failed_writes' = failed_writes)
            => ltm_file' = JsonDumpMemories(memories')
       /\ (~SameFile(core_file', core_file) /\ failed_writes' = failed_writes)
            => core_file' = JsonDumpCore(core_memories')]_vars

\* the write of the first string failed in add_memory, and the next
\* add_memory wrote the first string along with the second
C21_RetriedAfterFailure ==
    /\ Len(ltm_ops) = 2
    /\ failed_writes = << FailedWrite("ltm", "add", TRUE) >>
    /\ ltm_writes = 2
    /\ memories = << ltm_ops[1].arg, ltm_ops[2].arg >>
    /\ IsText(ltm_file)
    /\ ltm_file = JsonDumpMemories(memories)

\* C22: every chat line delivered to _chat_callback is appended to the
\* rolling chat window, whatever the outcome of the response trial and whether
\* or not audio is playing; the window never exceeds its cap, evicts its
\* oldest line on overflow and keeps the order of arrival.
C22_EveryLineEntersWindow ==
    [][/\ Len(recent_chats') <= MaxRecentChats
       /\ \A i, j \in 1..Len(recent_chats') :
             i < j => recent_chats'[i] < recent_chats'[j]
       /\ nChat' = nChat + 1
            => /\ recent_chats' # << >>
               /\ recent_chats'[Len(recent_chats')] = nChat + 1
               /\ SubSeq(recent_chats', 1, Len(recent_chats') - 1)
                     = IF Len(recent_chats) = MaxRecentChats
                       THEN Tail(recent_chats)
                       ELSE recent_chats]_vars

\* the window is full and has evicted its first line; the second line passed
\* the trial while audio was playing, the third failed the trial while audio
\* was playing, and both are in the window
C22_EvictedWhilePlaying ==
    /\ Len(chat_log) = WindowChats
    /\ chat_log[2].pass /\ chat_log[2].playing
    /\ ~chat_log[3].pass /\ chat_log[3].playing
    /\ recent_chats = << 2, 3 >>

\* C23: a chat line that passes the response trial while the pipeline is
\* active (a response is being generated, synthesized or played) is dropped
\* as a response trigger: no response is ever issued for it.
C23_ActiveChatDropped ==
    \A r \in 1..Len(issuedFor) :
       issuedFor[r].source = "chat"
          => chat_log[issuedFor[r].id].active = {}

\* the number of times a line occurs in a sequence of lines
Occurrences(line, s) == Cardinality({i \in 1..Len(s) : s[i] = line})

\* the line is absent from the previous poll's result
AbsentFrom(prev, line) == \A i \in 1..Len(prev) : prev[i] # line

LastStart == start_log[Len(start_log)]

\* C25: start() is refused when a required external service is missing (no
\* language-model API key): after the failed start the orchestrator is not
\* in the running state and no worker thread is running, and a later start()
\* with the problem fixed is not rejected as "already running".
C25_FailedStartRefused ==
    [][Len(start_log') > Len(start_log) =>
          /\ LastStart' = "raised" => (~running' /\ ~threads')
          /\ (start_log # << >> /\ LastStart = "raised" /\ api_key)
                => LastStart' = "started"]_vars

\* the distillation attempt that has just been made
LastAttempt == distill_log[Len(distill_log)]

\* the keys of a core-memory entry, in order
EntryKeys(entry) == [i \in 1..Len(entry) |-> entry[i][1]]

\* C27: each invocation of the save_core_memory handler appends exactly one
\* entry {memory_text, importance_level, category, timestamp} to the end of
\* the core-memory store and persists the whole store; existing entries are
\* unchanged and duplicates are not rejected.  (Checked per reply: a reply
\* with k function calls invokes the handler k times.)
C27_HandlerAppendsOne ==
    [][Len(distill_log') > Len(distill_log) =>
          LET calls == LastAttempt'.calls
              n     == Len(core_memories)
          IN  /\ Len(core_memories') = n + Len(calls)
              /\ SubSeq(core_memories', 1, n) = core_memories
              /\ \A i \in 1..Len(calls) :
                    /\ EntryKeys(core_memories'[n + i]) =
                          << << "memory_text" >>, << "importance_level" >>,
                             << "category" >>, << "timestamp" >> >>
                    /\ core_memories'[n + i][1][2] = calls[i].text
                    /\ core_memories'[n + i][2][2] = calls[i].level
              /\ calls # << >> =>
                    /\ IsText(core_file')
                    /\ core_file' = JsonDumpCore(core_memories')]_vars

\* one reply called the handler twice with the same arguments: the store
\* holds the entry twice and the file holds both
C27_DuplicateSaved ==
    /\ distill_log # << >>
    /\ Len(LastAttempt.calls) = 2
    /\ LastAttempt.calls[1] = LastAttempt.calls[2]
    /\ Len(core_memories) = 2
    /\ core_memories[1] = core_memories[2]
    /\ IsText(core_file)
    /\ core_file = JsonDumpCore(core_memories)

\* C28: each time the distiller's interval elapses while the orchestrator
\* runs and the long-term memory is non-empty, the worker passes the current
\* long-term memories to process_long_term_memories; when the long-term
\* memory is empty it is not invoked.
C28_DistillerInvoked ==
    [][(Len(distill_log') > Len(distill_log) /\ LastAttempt'.by = "worker")
          => LastAttempt'.invoked = (memories # << >>)]_vars

LastStop == stop_log[Len(stop_log)]

\* C30: AudioPlayer.stop() is safe in every state: called when idle, when the
\* playing flag is set without an open stream, or during playback, it never
\* raises, and when it returns is_playing is clear and no stream is held.
C30_StopIsSafe ==
    [][Len(stop_log') > Len(stop_log) =>
          /\ LastStop'.call = "returned"
          /\ ~is_playing'
          /\ ~stream_open']_vars

\* stop() has been called in each of the three states and nothing is held
C30_StoppedInEveryState ==
    /\ \A s \in {"idle", "flag", "playing"} :
          \E i \in 1..Len(stop_log) : stop_log[i].before = s
    /\ ~is_playing
    /\ ~stream_open

\* the speech utterances among the drained items
DrainedSpeech == { mlDrained[i].id : i \in { j \in 1..Len(mlDrained) :
                                              mlDrained[j].source = "stt" } }

\* C26: if stopping the audio player (or any other step of interruption
\* handling) fails during a barge-in, the interrupting utterance is still
\* enqueued on llm_input_queue and later gets a fresh response id; the
\* failure does not lose the user's speech.  (An utterance that the main
\* loop has drained and passed over is discarded: here, an utterance whose
\* interruption handling failed is never passed over for an older one.)
C26_FaultedSpeechAnswered ==
    \A u \in faulted :
        (mlPc = "issue" /\ u \in DrainedSpeech)
            => ~(mlItem.source = "stt" /\ mlItem.id < u)


\* C31: if a speech utterance arrives while the language model is still
\* generating response R1, then when generation returns the main loop finds
\* that the current token no longer matches R1 and discards R1's text: it is
\* never queued for synthesis.
C31_StaleTextDiscarded ==
    [][(/\ mlPc = "gen" /\ mlPc' = "wait"
        /\ \E s \in 1..nSpeech : mlRid \in delivered[s])
          => /\ ~StillCurrent
             /\ tts_queue' = tts_queue]_vars

\* the barge-ins whose interruption handling has run to its end
HandledBargeIns == {s \in bargeIns : scText # s \/ scPc = "put"}

\* C32: after the barge-in handling of _stt_callback has run, no synthesis
\* task that was queued before the barge-in is played: a task that waited on
\* tts_queue when the utterance stopped the audio does not start playback
\* once the handling is over.
C32_QueuedTaskNeverPlayed ==
    [][\A s \in HandledBargeIns : \A r \in queuedAt[s] :
          ~(~Playing(r) /\ Playing(r)')]_vars

\* play_stream is under way although the flag is clear: stop() was called
\* after play_stream had set the flag
StoppedDuringPlay == twPc \in {"play_open", "play_loop"} /\ ~is_playing

\* C33: once AudioPlayer.stop() has been called during play_stream, playback
\* stops within one chunk boundary: at most the chunk in progress is written
\* to the device (the first chunk, when stop() came before the stream was
\* opened), no later chunk of that stream is written, and play_stream
\* returns.
C33_StopsWithinOneChunk ==
    /\ [][StoppedDuringPlay =>
             /\ written' > written => (twPc = "play_open" /\ written' = 1)
             /\ twPc = "play_loop" => twPc' \in {"play_loop", "finish"}]_vars
    /\ (StoppedDuringPlay ~> twPc \notin {"play_open", "play_loop"})

\* a barge-in has stopped the stream in the middle: chunks remain unwritten
C33_StoppedMidStream ==
    /\ twPc = "play_loop"
    /\ ~is_playing
    /\ ~stream_open
    /\ written < NumChunks
    /\ twTask.response_id \in {stopped[s] : s \in bargeIns}

\* the speech items waiting on llm_input_queue
QueuedSpeech == {llm_input_queue[i] : i \in {j \in 1..Len(llm_input_queue) :
                                                llm_input_queue[j].source = "stt"}}

\* C34: a speech item is marked is_interruption exactly when its arrival
\* preempted a playing response: an utterance that arrived while no audio was
\* playing is never marked, and an utterance that stopped playing audio is
\* always marked.
C34_FlagMeansBargeIn ==
    \A item \in QueuedSpeech : item.is_interruption = (item.id \in bargeIns)

\* C35: the newest user utterance always wins: the most recent speech
\* utterance delivered to _stt_callback is the one a response is generated
\* for; it is never discarded in favour of an older speech item, a chat item
\* or an idle item.  (The drained items that are not chosen are discarded:
\* when the most recent utterance is among the drained items, it is the
\* chosen one.)
C35_NewestUtteranceWins ==
    (mlPc = "issue" /\ nSpeech \in DrainedSpeech)
        => (mlItem.source = "stt" /\ mlItem.id = nSpeech)

\* C36: the idle worker posts an idle item only when audio is not playing,
\* the idle time exceeds the threshold and llm_input_queue is empty; no idle
\* item is posted during playback, and posting an idle item resets
\* last_interaction_time.  (The idle time is the one the worker compared
\* with the threshold in the same cycle.)
C36_IdleOnlyWhenQuiet ==
    [][nIdle' = nIdle + 1 =>
          /\ ~is_playing
          /\ iwPc = "post"
          /\ llm_input_queue = << >>
          /\ idle_elapsed' = 0]_vars

\* C37: a failed chat fetch is skipped without re-delivering old lines: when
\* the fetch after a failed one succeeds, the lines it delivers to
\* _chat_callback are those absent from the result of the last fetch that
\* did not fail; lines already delivered and still on the page are not
\* delivered again.
C37_NoRedeliveryAfterFailure ==
    [][(nPolls' = nPolls + 1 /\ fetch_log.failed /\ ~fetch_log'.failed)
          => emitted' = Reversed(NewChats(last_chats', fetch_log.good))]_vars

\* C38: a response that finishes (or whose task is skipped as stale) never
\* clears a newer response's token: the TTS worker sets current_response_id
\* to None only when it still equals the id of the task it just handled, and
\* otherwise leaves it unchanged.
C38_ClearsOnlyOwnToken ==
    [][/\ (twPc = "clear" /\ twPc' = "get")
             => (current_response_id' = None
                    => current_response_id \in {None, twTask.response_id})
       /\ \/ (twPc = "finish" /\ twPc' = "get")
          \/ (twPc = "get" /\ twPc' = "get" /\ tts_queue' # tts_queue
                 /\ tts_queue # << >> /\ tts_queue' = Tail(tts_queue))
             => current_response_id' = current_response_id]_vars

Stop ==
    /\ lim.halts
    /\ running
    /\ running' = FALSE
    /\ UNCHANGED << llm_input_queue, tts_queue, recent_chats, seen_chats,
                    interrupted_response, current_response_id, history,
                    is_playing, stream_open, nextId, mlPc, mlItem, mlDrained,
                    mlRid, mlPrev, mlRecent, twPc, twTask, written, scPc,
                    scText, nSpeech, nChat, nIdle, lim, delivered, bargeIns,
                    stopped, issuedFor >>
    /\ UNCHANGED storeVars
    /\ UNCHANGED auxVars

\* a worker leaves its loop
Exit(worker) ==
    /\ threads
    /\ ~running
    /\ worker \notin exited
    /\ exited' = exited \cup {worker}
    /\ UNCHANGED << api_key, threads, start_log, chat_log, faulted, last_chats,
                    emitted, nPolls, distill_log, stop_log, queuedAt,
                    idle_elapsed, iwPc, fetch_log >>
    /\ UNCHANGED storeVars

\* run_main_loop lines 443-452: the loop condition and the two checks of
\* running around the wait for the player
MainExit ==
    /\ mlPc = "wait"
    /\ Exit("main")
    /\ UNCHANGED << running, llm_input_queue, tts_queue, recent_chats,
                    seen_chats, interrupted_response, current_response_id,
                    history, is_playing, stream_open, nextId, mlPc, mlItem,
                    mlDrained, mlRid, mlPrev, mlRecent, twPc, twTask, written,
                    scPc, scText, nSpeech, nChat, nIdle, lim, delivered,
                    bargeIns, stopped, issuedFor >>

\* _tts_worker lines 255-276 with running clear: the loop ends when the
\* queue is empty; a queued task is still taken, a stale one is skipped and
\* one of the current response makes the worker break
TtsStopped ==
    /\ twPc = "get"
    /\ threads
    /\ ~running
    /\ "tts" \notin exited
    /\ IF tts_queue = << >>
       THEN /\ exited' = exited \cup {"tts"}
            /\ UNCHANGED tts_queue
       ELSE /\ tts_queue' = Tail(tts_queue)
            /\ exited' = IF Head(tts_queue).response_id # current_response_id
                         THEN exited
                         ELSE exited \cup {"tts"}
    /\ UNCHANGED << running, llm_input_queue, recent_chats, seen_chats,
                    interrupted_response, current_response_id, history,
                    is_playing, stream_open, nextId, mlPc, mlItem, mlDrained,
                    mlRid, mlPrev, mlRecent, twPc, twTask, written, scPc,
                    scText, nSpeech, nChat, nIdle, lim, delivered, bargeIns,
                    stopped, issuedFor >>
    /\ UNCHANGED << api_key, threads, start_log, chat_log, faulted, last_chats,
                    emitted, nPolls, distill_log, stop_log, queuedAt,
                    idle_elapsed, iwPc, fetch_log >>
    /\ UNCHANGED storeVars

\* _idle_chatter_worker line 334: the loop condition
IdleExit ==
    /\ iwPc = "check"
    /\ Exit("idle")
    /\ UNCHANGED << running, llm_input_queue, tts_queue, recent_chats,
                    seen_chats, interrupted_response, current_response_id,
                    history, is_playing, stream_open, nextId, mlPc, mlItem,
                    mlDrained, mlRid, mlPrev, mlRecent, twPc, twTask, written,
                    scPc, scText, nSpeech, nChat, nIdle, lim, delivered,
                    bargeIns, stopped, issuedFor >>

\* the loop conditions of _chat_collector_worker, _memory_worker and
\* _core_memory_worker after their sleep
WorkerExit ==
    /\ \E worker \in {"chat", "memory", "core"} : Exit(worker)
    /\ UNCHANGED << running, llm_input_queue, tts_queue, recent_chats,
                    seen_chats, interrupted_response, current_response_id,
                    history, is_playing, stream_open, nextId, mlPc, mlItem,
                    mlDrained, mlRid, mlPrev, mlRecent, twPc, twTask, written,
                    scPc, scText, nSpeech, nChat, nIdle, lim, delivered,
                    bargeIns, stopped, issuedFor >>

\* speech and idle events around one call of stop()
StopBudget == [speech |-> MaxSpeech, chat |-> 0, idle |-> MaxIdle,
               uuids |-> "distinct", halts |-> TRUE] @@ NoStoreOps

NextStop ==
    \/ NextSpeech
    \/ Stop
    \/ MainExit
    \/ TtsStopped
    \/ IdleExit
    \/ WorkerExit

SpecStop == InitWith(StopBudget) /\ [][NextStop]_vars

=============================================================================
